---- MODULE Spec2Model ----
(***************************************************************************)
(* cliamp: the audio engine (player.Player), its visualization tap         *)
(* (player.Tap) and the speaker it feeds, as a state machine.              *)
(*                                                                         *)
(* Two threads act on the player: the control plane (the Bubbletea event   *)
(* loop, which calls one Player method at a time) and the audio thread of  *)
(* the speaker, which pulls frames through the attached pipeline while     *)
(* holding the speaker's mutex.                                            *)
(***************************************************************************)
EXTENDS Integers, Sequences, FiniteSets, TLC

VARIABLES
    streamer,   \* Player.streamer: id of the decoder, Nil when absent
    file,       \* Player.file: id of the open file, Nil when absent
    format,     \* Player.format.SampleRate of the last decoded track
    ctrl,       \* Player.ctrl: id of the gate (beep.Ctrl), Nil when absent
    tap,        \* Player.tap: id of the Tap, Nil when absent
    volume,     \* Player.volume, in 1/DbScale dB
    eqBands,    \* Player.eqBands, ten gains in 1/DbScale dB
    eqDirty,    \* the bands SetEQBand has written since the last pull began
    trackDone,  \* Player.trackDone (atomic.Bool)
    playing,    \* Player.playing
    paused,     \* Player.paused
    muOwner,    \* holder of Player.mu
    spkOwner,   \* holder of the speaker's mutex (speaker.Lock)
    mixer,      \* ids of the pipelines attached to the speaker's mixer
    pipes,      \* every pipeline built so far: decoder, gate, tap, sequence
    files,      \* every file opened so far: TRUE while open
    nplays,     \* number of Play calls made
    nseeks,     \* number of Seek calls made
    pc,         \* control plane: where the running Player method stands
    cur,        \* control plane: the running call, its locals, and the
                \* Player fields as they were when it began (pre)
    ret,        \* the last completed call and what it returned
    apc,        \* audio thread: where the running pull stands
    acur,       \* audio thread: locals of the running pull
    out,        \* what the gate returned to the speaker in the last pull
    written,    \* every downmix the current tap was handed, in order
    playlist,   \* the playlist.Playlist of the UI
    vis,        \* the ui.Visualizer: its smoothing state, and the number
                \* of Analyze calls made
    uiRet,      \* the last playlist or visualizer call and what it returned
    chain,      \* the chain Play builds, pulled on its own
    locks       \* the three mutexes and the Lock and Unlock calls the two
                \* threads have left to make, on their own

vars == <<streamer, file, format, ctrl, tap, volume, eqBands, eqDirty,
          trackDone,
          playing, paused, muOwner, spkOwner, mixer, pipes, files, nplays,
          nseeks,
          pc, cur, ret, apc, acur, out, written, playlist, vis, uiRet, chain,
          locks>>

playerVars == <<streamer, file, format, ctrl, tap, playing, paused>>
paramVars == <<volume, eqBands, eqDirty>>
lockVars == <<muOwner, spkOwner>>
audioVars == <<apc, acur, out>>
uiVars == <<playlist, vis, uiRet, chain, locks>>

----------------------------------------------------------------------------
(* Bounds of the model *)

MaxPlays == 2       \* Play calls in one run
MaxSeeks == 2       \* Seek calls in one run
BufFrames == 2      \* frames the speaker asks for in one pull
TapCap == 3         \* capacity of the tap's ring buffer
MaxWritten == 5     \* frames streamed through one tap
MaxTracks == 3      \* tracks added to the playlist
MaxPulls == 3       \* pulls of the equalizer chain on its own
MaxAnalyze == 3     \* Analyze calls in one run
DbScale == 100      \* fixed-point steps per dB

(* Program constants *)

DeviceRate == 44100 \* sr in main.run, handed to player.New
NumBands == 10      \* len(Player.eqBands)
VisBands == 10      \* numBands of the visualizer
VolMin == -30
VolMax == 6
EQMin == -12
EQMax == 12

Nil == 0

----------------------------------------------------------------------------
(* Go's integers.  int and time.Duration are 64-bit two's complement; the  *)
(* model keeps the wrap-around but at IntBits bits, and counts durations   *)
(* in 1/Second of a second, so that every product stays a machine integer  *)
(* of the model checker while a ten-second track and a seek of 15 s stay   *)
(* far from the wrap, as they are in the program.                          *)

IntBits == 30
Second == 100

RECURSIVE Pow2(_)
Pow2(n) == IF n = 0 THEN 1 ELSE 2 * Pow2(n - 1)

IntMod == Pow2(IntBits)
MaxInt == Pow2(IntBits - 1) - 1
MinInt == -Pow2(IntBits - 1)

Wrap(x) == ((x - MinInt) % IntMod) + MinInt

AddWrap(a, b) == Wrap(a + b)

\* a * b as Go computes it: the low IntBits bits of the product, put
\* together from the halves of the two operands
Half == Pow2(IntBits \div 2)
MulWrap(a, b) ==
    LET ua == a % IntMod
        ub == b % IntMod
        a0 == ua % Half
        a1 == ua \div Half
        b0 == ub % Half
        b1 == ub \div Half
        cross == (((a1 * b0) % Half) + ((a0 * b1) % Half)) % Half
    IN  Wrap(((a0 * b0) + (cross * Half)) % IntMod)

\* a / b as Go computes it, b > 0: the quotient truncated toward zero
GoDiv(a, b) == IF a >= 0 THEN a \div b ELSE 0 - ((0 - a) \div b)

\* beep.SampleRate.D: the duration of n samples
D(sr, n) == GoDiv(MulWrap(Second, n), sr)

\* beep.SampleRate.N: the number of samples that last for d
N(sr, d) == GoDiv(MulWrap(d, sr), Second)

Min(a, b) == IF a < b THEN a ELSE b
Max(a, b) == IF a > b THEN a ELSE b

----------------------------------------------------------------------------
(* The sources Play can be handed.  "ok": opens and decodes; "missing":    *)
(* os.Open fails; "corrupt": mp3.Decode fails.                             *)

Tracks ==
    [ a |-> [kind |-> "ok", rate |-> 44100, len |-> 3],
      b |-> [kind |-> "ok", rate |-> 22050, len |-> 1],
      missing |-> [kind |-> "missing", rate |-> 0, len |-> 0],
      corrupt |-> [kind |-> "corrupt", rate |-> 0, len |-> 0],
      tenSeconds |-> [kind |-> "ok", rate |-> 44100, len |-> 441000],
      oneFrame |-> [kind |-> "ok", rate |-> 48000, len |-> 1],
      lowRate |-> [kind |-> "ok", rate |-> 8000, len |-> 100000],
      veryLong |-> [kind |-> "ok", rate |-> 44100, len |-> 400000000] ]

\* the sources of the player's life cycle
Paths == {"a", "b", "missing", "corrupt"}

\* Seek deltas of the control plane, in 1/Second s
SeekDeltas == {0 - 5 * Second, 5 * Second}

\* the tracks and the deltas of the seek arithmetic: from the smallest to
\* the largest time.Duration
SeekPaths == {"tenSeconds", "oneFrame", "lowRate", "veryLong"}
WideDeltas == {MinInt, 0 - 15 * Second, 0 - 5 * Second, 0, 5 * Second,
               15 * Second, MaxInt}

----------------------------------------------------------------------------
(* player.Tap *)

Zeros(n) == [i \in 1..n |-> 0]

\* NewTap: a ring of bufSize zeros, cursor 0
NewTap(bufSize) == [buf |-> Zeros(bufSize), pos |-> 0, size |-> bufSize]

\* the mono mix of one frame <<left, right>>
Downmix(fr) == (fr[1] + fr[2]) \div 2

\* Tap.Stream's loop over the n frames upstream produced
RECURSIVE TapStream(_, _)
TapStream(t, frames) ==
    IF frames = <<>> THEN t
    ELSE TapStream([t EXCEPT !.buf[t.pos + 1] = Downmix(Head(frames)),
                             !.pos = (t.pos + 1) % t.size],
                   Tail(frames))

\* a Samples that starts reading one slot late
TapSamples_StartsLate(t, n) ==
    LET m == IF n > t.size THEN t.size ELSE n
        start == (t.pos - m + 1 + t.size) % t.size
    IN  [i \in 1..m |-> t.buf[((start + (i - 1)) % t.size) + 1]]

\* Tap.Samples: the last n samples, oldest first
TapSamples(t, n) ==
    LET m == IF n > t.size THEN t.size ELSE n
        start == (t.pos - m + t.size) % t.size
    IN  [i \in 1..m |-> t.buf[((start + (i - 1)) % t.size) + 1]]

----------------------------------------------------------------------------
(* The ten biquads of the equalizer.  Each reads its gain through b.gain,  *)
(* which points to eqBands[i], with no lock: the read is one step of the   *)
(* audio thread and returns what the cell holds at that step, before or    *)
(* after a SetEQBand that runs alongside.                                  *)

\* a biquad that goes on with the gain its coefficients were computed from
GainRead_Stuck(b, i) == IF b.inited THEN b.lastGain ELSE eqBands[i]

\* dB := *b.gain
GainRead(b, i) == eqBands[i]

\* a biquad that passes the frames on untouched at 0 dB only
Bypass_ZeroOnly(dB) == dB = 0

\* dB > -0.1 && dB < 0.1: the biquad passes the frames on untouched
Bypass(dB) == 10 * dB > 0 - DbScale /\ 10 * dB < DbScale

\* biquad.calcCoeffs: recomputed unless the gain is the cached one
calcCoeffs(b, dB) ==
    IF b.inited /\ dB = b.lastGain
    THEN b
    ELSE [inited |-> TRUE, lastGain |-> dB, coefOf |-> dB]

\* biquad.Stream on the gain it read, for each of the ten stages
EQStream(eq, g) ==
    [i \in 1..NumBands |->
        IF Bypass(g[i]) THEN eq[i] ELSE calcCoeffs(eq[i], g[i])]

----------------------------------------------------------------------------
(* The control plane *)

\* what a caller can tell of the player: its fields, the end-of-track flag
\* and what is attached to the speaker
Snapshot == [streamer |-> streamer, file |-> file, ctrl |-> ctrl, tap |-> tap,
             playing |-> playing, paused |-> paused, trackDone |-> trackDone,
             attached |-> mixer]

NoSnapshot == [streamer |-> Nil, file |-> Nil, ctrl |-> Nil, tap |-> Nil,
               playing |-> FALSE, paused |-> FALSE, trackDone |-> FALSE,
               attached |-> {}]

NoCall == [op |-> "none", path |-> "", d |-> 0, f |-> Nil, s |-> Nil,
           pre |-> NoSnapshot]
\* a completed call: its name, its arguments (arg, arg2), the error and the
\* value or array it returned; a getter also notes the call it came after
NoPrev == [op |-> "none", arg |-> 0, arg2 |-> 0]
NoRet == [op |-> "none", arg |-> 0, arg2 |-> 0, err |-> "nil", val |-> 0,
          arr |-> <<>>, prev |-> NoPrev]
Returned(op, err, val) == [NoRet EXCEPT !.op = op, !.err = err, !.val = val]
Got(op, val, arr) ==
    [NoRet EXCEPT !.op = op, !.val = val, !.arr = arr,
                  !.prev = [op |-> ret.op, arg |-> ret.arg, arg2 |-> ret.arg2]]

\* Player.Play, on entry: p.Stop() comes first
PlayCall(path) ==
    /\ pc = "idle"
    /\ nplays < MaxPlays
    /\ nplays' = nplays + 1
    /\ UNCHANGED nseeks
    /\ cur' = [NoCall EXCEPT !.op = "Play", !.path = path, !.pre = Snapshot]
    /\ pc' = "stop_clear"
    /\ UNCHANGED <<uiVars,
                   playerVars, paramVars, trackDone, lockVars, mixer, pipes,
                   files, ret, audioVars, written>>

\* Player.Stop, on entry
StopCall ==
    /\ pc = "idle"
    /\ cur' = [NoCall EXCEPT !.op = "Stop", !.pre = Snapshot]
    /\ pc' = "stop_clear"
    /\ UNCHANGED <<uiVars,
                   playerVars, paramVars, trackDone, lockVars, mixer, pipes,
                   files, nplays, nseeks, ret, audioVars, written>>

\* Stop without its speaker.Clear(): the old sequence stays attached
StopClear_KeepsMixer ==
    /\ pc = "stop_clear"
    /\ spkOwner = "none"
    /\ pc' = "stop_lock"
    /\ UNCHANGED <<uiVars,
                   playerVars, paramVars, trackDone, lockVars, mixer, pipes,
                   files, nplays, nseeks, cur, ret, audioVars, written>>

\* speaker.Clear(): under the speaker's mutex, empties the mixer
StopClear ==
    /\ pc = "stop_clear"
    /\ spkOwner = "none"
    /\ mixer' = {}
    /\ pc' = "stop_lock"
    /\ UNCHANGED <<uiVars,
                   playerVars, paramVars, trackDone, lockVars, pipes, files,
                   nplays, nseeks, cur, ret, audioVars, written>>

\* p.mu.Lock() in Stop
StopLock ==
    /\ pc = "stop_lock"
    /\ muOwner = "none"
    /\ muOwner' = "ctl"
    /\ pc' = "stop_body"
    /\ UNCHANGED <<uiVars,
                   playerVars, paramVars, trackDone, spkOwner, mixer, pipes,
                   files, nplays, nseeks, cur, ret, audioVars, written>>

\* newBiquad: no coefficients yet; coefOf is the gain the cached
\* coefficients were computed from
NewBiquad == [inited |-> FALSE, lastGain |-> 0, coefOf |-> 0]

\* what a fresh pipeline holds: the decoder (rate, len, pos, closed), its
\* file, and once Play has built the chain (built) whether it resamples,
\* the ten biquads, the gate's Paused flag, the tap, and where the
\* speaker's sequence Seq(ctrl, Callback) stands, with the number of times
\* the callback ran
NewPipe(path, f) ==
    [path |-> path,
     rate |-> IF path = "" THEN 0 ELSE Tracks[path].rate,
     len |-> IF path = "" THEN 0 ELSE Tracks[path].len,
     pos |-> 0, closed |-> FALSE, file |-> f, built |-> FALSE,
     resample |-> FALSE, eq |-> [i \in 1..NumBands |-> NewBiquad],
     gatePaused |-> FALSE, tap |-> NewTap(TapCap),
     stage |-> "ctrl", callbacks |-> 0]

\* streamer.Close(): the decoder is closed.  A pipeline that neither the
\* mixer nor a running pull still refers to is garbage once the Player drops
\* it: what is left of it is that it was closed
Closed(id, p) ==
    IF id \in mixer \/ acur.id = id
    THEN [p EXCEPT !.closed = TRUE]
    ELSE [NewPipe("", p.file) EXCEPT !.closed = TRUE]

\* Stop forgetting p.file.Close(): the handle leaks
FileClose_Leaks(fs, f) == fs

\* p.file.Close() when p.file is not nil
FileClose(fs, f) == IF f # Nil THEN [fs EXCEPT ![f] = FALSE] ELSE fs

\* the body of Stop under p.mu, and the deferred p.mu.Unlock()
StopBody ==
    /\ pc = "stop_body"
    /\ pipes' = IF streamer # Nil
                THEN [pipes EXCEPT ![streamer] = Closed(streamer, @)]
                ELSE pipes
    /\ files' = FileClose(files, file)
    /\ streamer' = Nil
    /\ file' = Nil
    /\ ctrl' = Nil
    /\ tap' = Nil
    /\ playing' = FALSE
    /\ paused' = FALSE
    /\ trackDone' = FALSE
    /\ muOwner' = "none"
    /\ IF cur.op = "Play"
       THEN /\ pc' = "play_open"
            /\ UNCHANGED <<ret, cur>>
       ELSE /\ pc' = "idle"
            /\ ret' = Returned("Stop", "nil", 0)
            /\ cur' = NoCall
    /\ UNCHANGED <<uiVars,
                   format, paramVars, spkOwner, mixer, nplays, nseeks, audioVars,
                   written>>

\* os.Open(path) in Play
PlayOpen ==
    /\ pc = "play_open"
    /\ IF Tracks[cur.path].kind = "missing"
       THEN /\ ret' = Returned("Play", "open", 0)
            /\ pc' = "idle"
            /\ cur' = NoCall
            /\ UNCHANGED files
       ELSE /\ files' = Append(files, TRUE)
            /\ cur' = [cur EXCEPT !.f = Len(files) + 1]
            /\ pc' = "play_decode"
            /\ UNCHANGED ret
    /\ UNCHANGED <<uiVars,
                   playerVars, paramVars, trackDone, lockVars, mixer, pipes,
                   nplays, nseeks, audioVars, written>>

\* mp3.Decode(f) in Play without the f.Close() of the error path
PlayDecode_KeepsFileOpen ==
    /\ pc = "play_decode"
    /\ IF Tracks[cur.path].kind = "corrupt"
       THEN /\ files' = files
            /\ ret' = Returned("Play", "decode", 0)
            /\ pc' = "idle"
            /\ cur' = NoCall
            /\ UNCHANGED pipes
       ELSE /\ pipes' = Append(pipes, NewPipe(cur.path, cur.f))
            /\ cur' = [cur EXCEPT !.s = Len(pipes) + 1]
            /\ pc' = "play_lock"
            /\ UNCHANGED <<files, ret>>
    /\ UNCHANGED <<uiVars,
                   playerVars, paramVars, trackDone, lockVars, mixer, nplays, nseeks,
                   audioVars, written>>

\* mp3.Decode(f) in Play
PlayDecode ==
    /\ pc = "play_decode"
    /\ IF Tracks[cur.path].kind = "corrupt"
       THEN /\ files' = [files EXCEPT ![cur.f] = FALSE]
            /\ ret' = Returned("Play", "decode", 0)
            /\ pc' = "idle"
            /\ cur' = NoCall
            /\ UNCHANGED pipes
       ELSE /\ pipes' = Append(pipes, NewPipe(cur.path, cur.f))
            /\ cur' = [cur EXCEPT !.s = Len(pipes) + 1]
            /\ pc' = "play_lock"
            /\ UNCHANGED <<files, ret>>
    /\ UNCHANGED <<uiVars,
                   playerVars, paramVars, trackDone, lockVars, mixer, nplays, nseeks,
                   audioVars, written>>

\* p.mu.Lock() in Play
PlayLock ==
    /\ pc = "play_lock"
    /\ muOwner = "none"
    /\ muOwner' = "ctl"
    /\ pc' = "play_build"
    /\ UNCHANGED <<uiVars,
                   playerVars, paramVars, trackDone, spkOwner, mixer, pipes,
                   files, nplays, nseeks, cur, ret, audioVars, written>>

\* Play under p.mu: the fields are stored and the chain is built
\* (resampler when the rates differ, ten biquads, volume, tap, gate)
PlayBuild ==
    /\ pc = "play_build"
    /\ file' = cur.f
    /\ streamer' = cur.s
    /\ format' = pipes[cur.s].rate
    /\ trackDone' = FALSE
    /\ pipes' = [pipes EXCEPT ![cur.s].resample = (pipes[cur.s].rate # DeviceRate),
                              ![cur.s].eq = [i \in 1..NumBands |-> NewBiquad],
                              ![cur.s].tap = NewTap(TapCap),
                              ![cur.s].gatePaused = FALSE,
                              ![cur.s].built = TRUE]
    /\ tap' = cur.s
    /\ ctrl' = cur.s
    /\ playing' = TRUE
    /\ paused' = FALSE
    /\ muOwner' = "none"
    /\ pc' = "play_attach"
    /\ written' = <<>>
    /\ UNCHANGED <<uiVars,
                   paramVars, spkOwner, mixer, files, nplays, nseeks, cur, ret,
                   audioVars>>

\* speaker.Play(beep.Seq(p.ctrl, beep.Callback(...))): under the speaker's
\* mutex, adds the sequence to the mixer
PlayAttach ==
    /\ pc = "play_attach"
    /\ spkOwner = "none"
    /\ mixer' = mixer \cup {ctrl}
    /\ ret' = Returned("Play", "nil", 0)
    /\ pc' = "idle"
    /\ cur' = NoCall
    /\ UNCHANGED <<uiVars,
                   playerVars, paramVars, trackDone, lockVars, pipes, files,
                   nplays, nseeks, audioVars, written>>

\* Player.TogglePause, on entry
TogglePauseCall ==
    /\ pc = "idle"
    /\ cur' = [NoCall EXCEPT !.op = "TogglePause"]
    /\ pc' = "pause_lock"
    /\ UNCHANGED <<uiVars,
                   playerVars, paramVars, trackDone, lockVars, mixer, pipes,
                   files, nplays, nseeks, ret, audioVars, written>>

\* speaker.Lock() in TogglePause
TogglePauseLock ==
    /\ pc = "pause_lock"
    /\ spkOwner = "none"
    /\ spkOwner' = "ctl"
    /\ pc' = "pause_body"
    /\ UNCHANGED <<uiVars,
                   playerVars, paramVars, trackDone, muOwner, mixer, pipes,
                   files, nplays, nseeks, cur, ret, audioVars, written>>

\* a TogglePause that flips p.paused whether or not there is a gate
TogglePauseBody_FlagOnly ==
    /\ pc = "pause_body"
    /\ IF ctrl # Nil
       THEN pipes' = [pipes EXCEPT ![ctrl].gatePaused = ~pipes[ctrl].gatePaused]
       ELSE UNCHANGED pipes
    /\ paused' = ~paused
    /\ spkOwner' = "none"
    /\ ret' = Returned("TogglePause", "nil", 0)
    /\ pc' = "idle"
    /\ cur' = NoCall
    /\ UNCHANGED <<uiVars,
                   streamer, file, format, ctrl, tap, playing, paramVars,
                   trackDone, muOwner, mixer, files, nplays, nseeks, audioVars,
                   written>>

\* the body of TogglePause under the speaker's mutex, and the deferred
\* speaker.Unlock()
TogglePauseBody ==
    /\ pc = "pause_body"
    /\ IF ctrl # Nil
       THEN /\ pipes' = [pipes EXCEPT ![ctrl].gatePaused = ~pipes[ctrl].gatePaused]
            /\ paused' = ~pipes[ctrl].gatePaused
       ELSE UNCHANGED <<pipes, paused>>
    /\ spkOwner' = "none"
    /\ ret' = Returned("TogglePause", "nil", 0)
    /\ pc' = "idle"
    /\ cur' = NoCall
    /\ UNCHANGED <<uiVars,
                   streamer, file, format, ctrl, tap, playing, paramVars,
                   trackDone, muOwner, mixer, files, nplays, nseeks, audioVars,
                   written>>

\* a Seek whose upper clamp stops at Len() instead of Len() - 1
SeekTarget_ClampsToLen(rate, curSample, len, d) ==
    LET curDur == D(rate, curSample)
        newSample == N(rate, AddWrap(curDur, d))
    IN  IF newSample < 0 THEN 0
        ELSE IF newSample > len THEN len
        ELSE newSample

\* the frame index Seek hands to the decoder: the current position moved by
\* d and clamped
SeekTarget(rate, curSample, len, d) ==
    LET curDur == D(rate, curSample)
        newSample == N(rate, AddWrap(curDur, d))
        lo == IF newSample < 0 THEN 0 ELSE newSample
    IN  IF lo >= len THEN len - 1 ELSE lo

\* the mp3 decoder's Seek: an index outside [0, Len()] is an error and moves
\* nothing
DecoderSeekOk(p, i) == 0 <= i /\ i <= p.len

\* Player.Seek, on entry
SeekCall(d) ==
    /\ pc = "idle"
    /\ nseeks < MaxSeeks
    /\ nseeks' = nseeks + 1
    /\ cur' = [NoCall EXCEPT !.op = "Seek", !.d = d]
    /\ pc' = "seek_lock"
    /\ UNCHANGED <<uiVars,
                   playerVars, paramVars, trackDone, lockVars, mixer, pipes,
                   files, nplays, ret, audioVars, written>>

\* a Seek that goes on without the speaker's mutex
SeekLock_Unlocked ==
    /\ pc = "seek_lock"
    /\ spkOwner' = spkOwner
    /\ pc' = "seek_body"
    /\ UNCHANGED <<uiVars,
                   playerVars, paramVars, trackDone, muOwner, mixer, pipes,
                   files, nplays, nseeks, cur, ret, audioVars, written>>

\* speaker.Lock() in Seek
SeekLock ==
    /\ pc = "seek_lock"
    /\ spkOwner = "none"
    /\ spkOwner' = "ctl"
    /\ pc' = "seek_body"
    /\ UNCHANGED <<uiVars,
                   playerVars, paramVars, trackDone, muOwner, mixer, pipes,
                   files, nplays, nseeks, cur, ret, audioVars, written>>

\* the body of Seek under the speaker's mutex, and the deferred
\* speaker.Unlock(); of the call are kept d (arg), the position Seek read
\* (arg2) and the index it handed to the decoder (val)
SeekBody ==
    /\ pc = "seek_body"
    /\ IF streamer = Nil
       THEN /\ ret' = [Returned("Seek", "nil", 0) EXCEPT !.arg = cur.d]
            /\ UNCHANGED pipes
       ELSE LET p == pipes[streamer]
                newSample == SeekTarget(format, p.pos, p.len, cur.d)
                r == [Returned("Seek", "nil", newSample)
                        EXCEPT !.arg = cur.d, !.arg2 = p.pos]
            IN  IF DecoderSeekOk(p, newSample)
                THEN /\ pipes' = [pipes EXCEPT ![streamer].pos = newSample]
                     /\ ret' = r
                ELSE /\ UNCHANGED pipes
                     /\ ret' = [r EXCEPT !.err = "range"]
    /\ spkOwner' = "none"
    /\ pc' = "idle"
    /\ cur' = NoCall
    /\ UNCHANGED <<uiVars,
                   playerVars, paramVars, trackDone, muOwner, mixer, files,
                   nplays, nseeks, audioVars, written>>

\* Player.Position: under the speaker's mutex
Position ==
    /\ pc = "idle"
    /\ spkOwner = "none"
    /\ ret' = Got("Position",
                  IF streamer = Nil THEN 0 ELSE D(format, pipes[streamer].pos),
                  <<>>)
    /\ UNCHANGED <<uiVars,
                   playerVars, paramVars, trackDone, lockVars, mixer, pipes,
                   files, nplays, nseeks, pc, cur, audioVars, written>>

\* Player.Duration: under p.mu
Duration ==
    /\ pc = "idle"
    /\ muOwner = "none"
    /\ ret' = Got("Duration",
                  IF streamer = Nil THEN 0 ELSE D(format, pipes[streamer].len),
                  <<>>)
    /\ UNCHANGED <<uiVars,
                   playerVars, paramVars, trackDone, lockVars, mixer, pipes,
                   files, nplays, nseeks, pc, cur, audioVars, written>>

\* the inputs of the parameter setters, in 1/DbScale dB: at, around and far
\* beyond both limits; and the band indexes, at and around both ends
VolInputs ==
    {MinInt, (VolMin - 1) * DbScale, VolMin * DbScale - 1, VolMin * DbScale,
     0, DbScale \div 2, VolMax * DbScale, VolMax * DbScale + 1,
     (VolMax + 1) * DbScale, MaxInt}
EQInputs ==
    {MinInt, EQMin * DbScale - 1, EQMin * DbScale, DbScale \div 4,
     EQMax * DbScale, EQMax * DbScale + 1, MaxInt}
BandInputs == {MinInt, -1, 0, NumBands - 1, NumBands, MaxInt}

\* a SetVolume that clamps from above only
ClampVolume_NoFloor(db) == Min(db, VolMax * DbScale)

\* max(min(db, 6), -30)
ClampVolume(db) == Max(Min(db, VolMax * DbScale), VolMin * DbScale)

\* Player.SetVolume: under p.mu
SetVolume(db) ==
    /\ pc = "idle"
    /\ muOwner = "none"
    /\ volume' = ClampVolume(db)
    /\ ret' = [Returned("SetVolume", "nil", 0) EXCEPT !.arg = db]
    /\ UNCHANGED <<uiVars,
                   playerVars, eqBands, eqDirty, trackDone, lockVars, mixer, pipes,
                   files, nplays, nseeks, pc, cur, audioVars, written>>

\* Player.Volume: under p.mu
Volume ==
    /\ pc = "idle"
    /\ muOwner = "none"
    /\ ret' = Got("Volume", volume, <<>>)
    /\ UNCHANGED <<uiVars,
                   playerVars, paramVars, trackDone, lockVars, mixer, pipes,
                   files, nplays, nseeks, pc, cur, audioVars, written>>

\* a SetEQBand that clamps to the volume's limits
ClampEQ_VolumeLimits(dB) == Max(Min(dB, VolMax * DbScale), VolMin * DbScale)

\* max(min(dB, 12), -12)
ClampEQ(dB) == Max(Min(dB, EQMax * DbScale), EQMin * DbScale)

\* Player.SetEQBand: returns at once on a band outside the array, and
\* otherwise stores under p.mu; band b of the code is eqBands[b + 1] here
SetEQBand(band, dB) ==
    /\ pc = "idle"
    /\ IF band < 0 \/ band >= NumBands
       THEN UNCHANGED <<eqBands, eqDirty>>
       ELSE /\ muOwner = "none"
            /\ eqBands' = [eqBands EXCEPT ![band + 1] = ClampEQ(dB)]
            /\ eqDirty' = eqDirty \cup {band + 1}
    /\ ret' = [Returned("SetEQBand", "nil", 0) EXCEPT !.arg = band, !.arg2 = dB]
    /\ UNCHANGED <<uiVars,
                   playerVars, volume, trackDone, lockVars, mixer, pipes,
                   files, nplays, nseeks, pc, cur, audioVars, written>>

\* Player.EQBands: a copy of the array, under p.mu
EQBands ==
    /\ pc = "idle"
    /\ muOwner = "none"
    /\ ret' = Got("EQBands", 0, eqBands)
    /\ UNCHANGED <<uiVars,
                   playerVars, paramVars, trackDone, lockVars, mixer, pipes,
                   files, nplays, nseeks, pc, cur, audioVars, written>>

\* the locals of a pull (with, for a pull of the tap alone, what upstream
\* produced) and what the pull returned
NoPull ==
    [id |-> Nil, n |-> 0, rem |-> 0, frames |-> <<>>, ok |-> FALSE,
     eq |-> <<>>, vol |-> 0]
NoOut == [kind |-> "none", id |-> Nil, n |-> 0, ok |-> FALSE, samples |-> <<>>]

\* the frames upstream hands to the tap in one pull, and the lengths asked
\* of Tap.Samples
TapFrames == {<<2, 4>>, <<-4, 2>>}
TapChunks == {<<>>} \cup {<<f>> : f \in TapFrames}
                 \cup {<<f, g>> : f \in TapFrames, g \in TapFrames}
SampleCounts == 0..(TapCap + 1)

\* a tap that hands on its mono mix in both channels
TapReturn_Downmixed(frames, ok) ==
    [n |-> Len(frames), ok |-> ok,
     samples |-> [i \in 1..Len(frames) |->
                    <<Downmix(frames[i]), Downmix(frames[i])>>]]

\* what Tap.Stream returns and leaves in samples, upstream having filled
\* frames and returned (len(frames), ok): n, ok and the frames as they are
TapReturn(frames, ok) == [n |-> Len(frames), ok |-> ok, samples |-> frames]

\* Tap.Stream on the current tap, with upstream producing frames and ok
TapPull(frames, ok) ==
    /\ tap # Nil
    /\ apc = "idle"
    /\ Len(written) + Len(frames) <= MaxWritten
    /\ pipes' = [pipes EXCEPT ![tap].tap = TapStream(@, frames)]
    /\ written' = written \o [i \in 1..Len(frames) |-> Downmix(frames[i])]
    /\ acur' = [NoPull EXCEPT !.n = Len(frames), !.frames = frames, !.ok = ok]
    /\ out' = [NoOut EXCEPT !.kind = "tap", !.id = tap,
                            !.n = TapReturn(frames, ok).n,
                            !.ok = TapReturn(frames, ok).ok,
                            !.samples = TapReturn(frames, ok).samples]
    /\ UNCHANGED <<uiVars, playerVars, paramVars, trackDone, lockVars, mixer,
                   files, nplays, nseeks, pc, cur, ret, apc>>

\* Player.Samples, asking the tap for n samples: p.tap is read under p.mu,
\* and nil is returned when there is no tap
Samples(n) ==
    /\ pc = "idle"
    /\ muOwner = "none"
    /\ ret' = [Returned("Samples", "nil", 0) EXCEPT
                  !.arg = n,
                  !.arr = IF tap = Nil THEN <<>>
                          ELSE TapSamples(pipes[tap].tap, n)]
    /\ UNCHANGED <<uiVars,
                   playerVars, paramVars, trackDone, lockVars, mixer, pipes,
                   files, nplays, nseeks, pc, cur, audioVars, written>>

----------------------------------------------------------------------------
(* The audio thread: one pull of the speaker through its mixer.  Sample    *)
(* values are abstract here: frame i of a track is <<2(i+1), 2(i+1)>>, and *)
(* the EQ and volume stages leave it as it is.                             *)


DecodedFrames(from, n) == [i \in 1..n |-> <<2 * (from + i), 2 * (from + i)>>]

\* a reader that pulls without the speaker's mutex
AudioLock_Unlocked ==
    /\ apc = "idle"
    /\ apc' = "stream"
    /\ acur' = [NoPull EXCEPT !.rem = BufFrames]
    /\ eqDirty' = {}
    /\ UNCHANGED <<uiVars,
                   playerVars, volume, eqBands, trackDone, lockVars, mixer, pipes,
                   files, nplays, nseeks, pc, cur, ret, out, written>>

\* the speaker's reader takes the speaker's mutex
AudioLock ==
    /\ apc = "idle"
    /\ spkOwner = "none"
    /\ spkOwner' = "audio"
    /\ apc' = "stream"
    /\ acur' = [NoPull EXCEPT !.rem = BufFrames]
    /\ eqDirty' = {}
    /\ UNCHANGED <<uiVars,
                   playerVars, volume, eqBands, trackDone, muOwner, mixer, pipes,
                   files, nplays, nseeks, pc, cur, ret, out, written>>

\* a chain built without the gate: pause has no effect on the pull
GateStream_IgnoresPause(id) ==
    LET p == pipes[id]
    IN  IF p.stage = "done"
        THEN /\ mixer' = mixer \ {id}
             /\ out' = [NoOut EXCEPT !.kind = "drained", !.id = id, !.n = 0,
                                   !.ok = FALSE]
             /\ apc' = "unlock"
             /\ UNCHANGED <<pipes, acur>>
        ELSE LET n == Min(acur.rem, p.len - p.pos)
                 g == [i \in 1..NumBands |-> GainRead(p.eq[i], i)]
             IN  /\ pipes' = [pipes EXCEPT ![id].pos = p.pos + n,
                                           ![id].eq = EQStream(p.eq, g)]
                 /\ acur' = [acur EXCEPT !.id = id, !.n = n, !.eq = g]
                 /\ apc' = "volume"
                 /\ UNCHANGED <<mixer, out>>

\* beep.Ctrl.Stream and what is upstream of the volume stage: a paused gate
\* streams silence and pulls nothing; otherwise the decoder yields up to
\* rem frames (the resampler and the ten biquads pass them on)
GateStream(id) ==
    LET p == pipes[id]
    IN  IF p.stage = "done"
        THEN \* the sequence is drained: the mixer drops it
             /\ mixer' = mixer \ {id}
             /\ out' = [NoOut EXCEPT !.kind = "drained", !.id = id, !.n = 0,
                                   !.ok = FALSE]
             /\ apc' = "unlock"
             /\ UNCHANGED <<pipes, acur>>
        ELSE IF p.gatePaused
        THEN /\ out' = [NoOut EXCEPT !.kind = "silence", !.id = id, !.n = acur.rem,
                                   !.ok = TRUE]
             /\ apc' = "unlock"
             /\ UNCHANGED <<pipes, mixer, acur>>
        ELSE LET n == Min(acur.rem, p.len - p.pos)
                 g == [i \in 1..NumBands |-> GainRead(p.eq[i], i)]
             IN  /\ pipes' = [pipes EXCEPT ![id].pos = p.pos + n,
                                           ![id].eq = EQStream(p.eq, g)]
                 /\ acur' = [acur EXCEPT !.id = id, !.n = n, !.eq = g]
                 /\ apc' = "volume"
                 /\ UNCHANGED <<mixer, out>>

\* Mixer.Stream: nothing attached, or the attached sequence is pulled
AudioStream ==
    /\ apc = "stream"
    /\ IF acur.id # Nil
       THEN GateStream(acur.id)
       ELSE IF mixer = {}
       THEN /\ out' = NoOut
            /\ apc' = "unlock"
            /\ UNCHANGED <<pipes, mixer, acur>>
       ELSE \E id \in mixer : GateStream(id)
    /\ UNCHANGED <<uiVars,
                   playerVars, paramVars, trackDone, lockVars, files, nplays, nseeks,
                   pc, cur, ret, written>>

\* a callback wired so that it runs at every drained pull: the sequence
\* never moves past it
SeqAfterDrain_Repeats(p) ==
    [p EXCEPT !.callbacks = Min(p.callbacks + 1, 2)]

\* beep.Seq(p.ctrl, beep.Callback(...)) when p.ctrl is drained: the callback
\* runs and the sequence is over
SeqAfterDrain(p) ==
    [p EXCEPT !.stage = "done", !.callbacks = Min(p.callbacks + 1, 2)]

\* volumeStreamer.Stream takes p.mu to read the gain; Tap.Stream records the
\* n frames; the gate returns them.  A decoder that yields nothing is
\* drained: the sequence moves on to its callback, which stores trackDone
AudioVolume ==
    /\ apc = "volume"
    /\ muOwner = "none"
    /\ LET id == acur.id
           p == pipes[id]
           n == acur.n
           rem == acur.rem - n
           total == BufFrames - rem
           t == TapStream(p.tap, DecodedFrames(p.pos - n, n))
       IN  IF n = 0
           THEN /\ trackDone' = TRUE
                /\ pipes' = [pipes EXCEPT ![id] = SeqAfterDrain(@)]
                /\ mixer' = IF total = 0 THEN mixer \ {id} ELSE mixer
                /\ out' = [NoOut EXCEPT !.kind = "audio", !.id = id, !.n = total,
                                   !.ok = total > 0]
                /\ acur' = [acur EXCEPT !.rem = rem, !.vol = volume]
                /\ apc' = "unlock"
           ELSE /\ pipes' = [pipes EXCEPT ![id].tap = t]
                /\ acur' = [acur EXCEPT !.rem = rem, !.vol = volume]
                /\ UNCHANGED <<trackDone, mixer>>
                /\ IF rem = 0
                   THEN /\ out' = [NoOut EXCEPT !.kind = "audio", !.id = id, !.n = total,
                                   !.ok = TRUE]
                        /\ apc' = "unlock"
                   ELSE /\ apc' = "stream"
                        /\ UNCHANGED out
    /\ UNCHANGED <<uiVars,
                   playerVars, paramVars, lockVars, files, nplays, nseeks, pc, cur,
                   ret, written>>

\* the speaker's reader releases the speaker's mutex
AudioUnlock ==
    /\ apc = "unlock"
    /\ spkOwner' = "none"
    /\ apc' = "idle"
    /\ acur' = NoPull
    /\ out' = NoOut
    /\ UNCHANGED <<uiVars,
                   playerVars, paramVars, trackDone, muOwner, mixer, pipes,
                   files, nplays, nseeks, pc, cur, ret, written>>

----------------------------------------------------------------------------
(* The playlist (playlist.Playlist).  A track is named by its index in    *)
(* Playlist.tracks; NoTrack stands for the zero Track{}.  pos counts from  *)
(* 0 as in the source, so the current index is order[pos + 1].             *)

RepeatOff == 0
RepeatAll == 1
RepeatOne == 2

NoTrack == -1

AddCounts == {1, 2}
IndexInputs == -1..MaxTracks

NoUiRet ==
    [op |-> "none", track |-> NoTrack, idx |-> -1, ok |-> FALSE,
     panic |-> FALSE, bands |-> <<>>, pre |-> [pos |-> 0, idx |-> -1],
     input |-> "none", before |-> <<>>,
     prior |-> [input |-> "none", before |-> <<>>]]

otherVars ==
    <<playerVars, paramVars, trackDone, lockVars, mixer, pipes, files,
      nplays, nseeks, cur, ret, audioVars, written, chain, locks>>

\* every ordering of the elements of S
Perms(S) ==
    {o \in [1..Cardinality(S) -> S] :
        \A i, j \in 1..Cardinality(S) : o[i] = o[j] => i = j}

\* Playlist.Current: the selected track and its index
Current(p) ==
    IF p.ntracks = 0
    THEN [track |-> NoTrack, idx |-> -1]
    ELSE [track |-> p.order[p.pos + 1], idx |-> p.order[p.pos + 1]]

\* Playlist.Index
Index(p) == IF Len(p.order) = 0 THEN -1 ELSE p.order[p.pos + 1]

\* a call of op on the playlist, with the position and the current index
\* it found
UiCall(op) ==
    [NoUiRet EXCEPT !.op = op,
                    !.pre = [pos |-> playlist.pos, idx |-> Index(playlist)]]

\* Playlist.doShuffle with the current track anywhere in the new order
doShuffle_AnyOrder(p) ==
    {[p EXCEPT !.order = o, !.pos = 0] : o \in Perms(0..(p.ntracks - 1))}

\* Playlist.doShuffle: the current track first, the others in an order
\* rand.Intn picks (Fisher-Yates reaches every ordering)
doShuffle(p) ==
    LET c == p.order[p.pos + 1]
    IN  {[p EXCEPT !.order = <<c>> \o o, !.pos = 0] :
            o \in Perms((0..(p.ntracks - 1)) \ {c})}

\* an Add that appends the tracks and leaves order as it was
PlaylistAdd_SkipsOrder(k) ==
    /\ pc = "idle"
    /\ playlist.ntracks + k <= MaxTracks
    /\ playlist' = [playlist EXCEPT !.ntracks = @ + k]
    /\ uiRet' = UiCall("Add")
    /\ UNCHANGED <<vis, pc, otherVars>>

\* Playlist.Add with k tracks
PlaylistAdd(k) ==
    /\ pc = "idle"
    /\ playlist.ntracks + k <= MaxTracks
    /\ playlist' =
        [playlist EXCEPT
            !.ntracks = @ + k,
            !.order = @ \o [i \in 1..k |-> playlist.ntracks + i - 1]]
    /\ uiRet' = UiCall("Add")
    /\ UNCHANGED <<vis, pc, otherVars>>

\* Playlist.Current
PlaylistCurrent ==
    /\ pc = "idle"
    /\ uiRet' = [UiCall("Current") EXCEPT !.track = Current(playlist).track,
                                !.idx = Current(playlist).idx]
    /\ UNCHANGED <<playlist, vis, pc, otherVars>>

\* Playlist.Index
PlaylistIndex ==
    /\ pc = "idle"
    /\ uiRet' = [UiCall("Index") EXCEPT !.idx = Index(playlist)]
    /\ UNCHANGED <<playlist, vis, pc, otherVars>>

\* Playlist.Next that wraps at the end whatever the repeat mode
PlaylistNext_AlwaysWraps ==
    /\ pc = "idle"
    /\ IF playlist.ntracks = 0
       THEN /\ playlist' = playlist
            /\ uiRet' = UiCall("Next")
       ELSE IF playlist.repeat = RepeatOne
       THEN /\ playlist' = playlist
            /\ uiRet' = [UiCall("Next") EXCEPT !.ok = TRUE,
                            !.track = playlist.order[playlist.pos + 1]]
       ELSE IF playlist.pos + 1 < Len(playlist.order)
       THEN /\ playlist' = [playlist EXCEPT !.pos = @ + 1]
            /\ uiRet' = [UiCall("Next") EXCEPT !.ok = TRUE,
                            !.track = playlist'.order[playlist'.pos + 1]]
       ELSE /\ playlist' \in
                    IF playlist.shuffle
                    THEN doShuffle([playlist EXCEPT !.pos = 0])
                    ELSE {[playlist EXCEPT !.pos = 0]}
            /\ uiRet' = [UiCall("Next") EXCEPT !.ok = TRUE,
                            !.track = playlist'.order[playlist'.pos + 1]]
    /\ UNCHANGED <<vis, pc, otherVars>>

\* Playlist.Next
PlaylistNext ==
    /\ pc = "idle"
    /\ IF playlist.ntracks = 0
       THEN /\ playlist' = playlist
            /\ uiRet' = UiCall("Next")
       ELSE IF playlist.repeat = RepeatOne
       THEN /\ playlist' = playlist
            /\ uiRet' = [UiCall("Next") EXCEPT !.ok = TRUE,
                            !.track = playlist.order[playlist.pos + 1]]
       ELSE IF playlist.pos + 1 < Len(playlist.order)
       THEN /\ playlist' = [playlist EXCEPT !.pos = @ + 1]
            /\ uiRet' = [UiCall("Next") EXCEPT !.ok = TRUE,
                            !.track = playlist'.order[playlist'.pos + 1]]
       ELSE IF playlist.repeat = RepeatAll
       THEN /\ playlist' \in
                    IF playlist.shuffle
                    THEN doShuffle([playlist EXCEPT !.pos = 0])
                    ELSE {[playlist EXCEPT !.pos = 0]}
            /\ uiRet' = [UiCall("Next") EXCEPT !.ok = TRUE,
                            !.track = playlist'.order[playlist'.pos + 1]]
       ELSE /\ playlist' = playlist
            /\ uiRet' = UiCall("Next")
    /\ UNCHANGED <<vis, pc, otherVars>>

\* Playlist.Prev that wraps at the first position whatever the repeat mode
PlaylistPrev_AlwaysWraps ==
    /\ pc = "idle"
    /\ IF playlist.ntracks = 0
       THEN /\ playlist' = playlist
            /\ uiRet' = UiCall("Prev")
       ELSE /\ playlist' =
                IF playlist.pos > 0
                THEN [playlist EXCEPT !.pos = @ - 1]
                ELSE [playlist EXCEPT !.pos = Len(playlist.order) - 1]
            /\ uiRet' = [UiCall("Prev") EXCEPT !.ok = TRUE,
                            !.track = playlist'.order[playlist'.pos + 1]]
    /\ UNCHANGED <<vis, pc, otherVars>>

\* Playlist.Prev
PlaylistPrev ==
    /\ pc = "idle"
    /\ IF playlist.ntracks = 0
       THEN /\ playlist' = playlist
            /\ uiRet' = UiCall("Prev")
       ELSE /\ playlist' =
                IF playlist.pos > 0
                THEN [playlist EXCEPT !.pos = @ - 1]
                ELSE IF playlist.repeat = RepeatAll
                THEN [playlist EXCEPT !.pos = Len(playlist.order) - 1]
                ELSE playlist
            /\ uiRet' = [UiCall("Prev") EXCEPT !.ok = TRUE,
                            !.track = playlist'.order[playlist'.pos + 1]]
    /\ UNCHANGED <<vis, pc, otherVars>>

\* Playlist.SetIndex: the position of track i in the order, if it is there
PlaylistSetIndex(i) ==
    /\ pc = "idle"
    /\ playlist' =
        IF \E k \in 1..Len(playlist.order) : playlist.order[k] = i
        THEN [playlist EXCEPT !.pos =
                (CHOOSE k \in 1..Len(playlist.order) :
                    playlist.order[k] = i) - 1]
        ELSE playlist
    /\ uiRet' = [UiCall("SetIndex") EXCEPT !.idx = i]
    /\ UNCHANGED <<vis, pc, otherVars>>

\* Playlist.ToggleShuffle.  On an empty playlist order[pos] is out of range
\* in either branch: the call panics after flipping the flag.
ToggleShuffle ==
    /\ pc = "idle"
    /\ IF Len(playlist.order) = 0
       THEN /\ playlist' = [playlist EXCEPT !.shuffle = ~@]
            /\ uiRet' = [UiCall("ToggleShuffle") EXCEPT !.panic = TRUE]
            /\ pc' = "panic"
       ELSE /\ IF ~playlist.shuffle
               THEN playlist' \in doShuffle([playlist EXCEPT !.shuffle = TRUE])
               ELSE playlist' =
                        [playlist EXCEPT
                            !.shuffle = FALSE,
                            !.order = [i \in 1..playlist.ntracks |-> i - 1],
                            !.pos = playlist.order[playlist.pos + 1]]
            /\ uiRet' = UiCall("ToggleShuffle")
            /\ pc' = pc
    /\ UNCHANGED <<vis, otherVars>>

\* Playlist.CycleRepeat: Off -> All -> One -> Off
CycleRepeat ==
    /\ pc = "idle"
    /\ playlist' = [playlist EXCEPT !.repeat = (@ + 1) % 3]
    /\ uiRet' = UiCall("CycleRepeat")
    /\ UNCHANGED <<vis, pc, otherVars>>

----------------------------------------------------------------------------
(* The spectrum analyzer (ui.Visualizer).  Band levels are exact          *)
(* fractions, counted in steps of 1/LevelScale: LevelScale is the 1.0 of   *)
(* the source.  Every blend of Analyze divides by 4 or 5, so with          *)
(* LevelScale = 20^MaxAnalyze no call of a run rounds.                     *)

LevelScale == 20 ^ MaxAnalyze

\* What the FFT of Analyze makes of its input, band by band: the level
\* (20*log10(sum)+10)/50 before it is clamped, or Silent when the mean
\* magnitude sum is 0 and the level is left at its zero value.
RawLevels ==
    {-(LevelScale \div 2), 0, LevelScale \div 2, (3 * LevelScale) \div 2}

Silent == [silent |-> TRUE, level |-> 0]

RawBands == {Silent} \cup {[silent |-> FALSE, level |-> r] : r \in RawLevels}

SplitBand == 5

\* Inputs of Analyze: no samples; samples that are all zero, whose spectrum
\* is zero in every bin; a signal with one level below SplitBand and
\* another, or silence, from there on.
AnalyzeInputs ==
    {[kind |-> "empty", raw |-> [b \in 1..VisBands |-> Silent]],
     [kind |-> "zeros", raw |-> [b \in 1..VisBands |-> Silent]]}
    \cup
    {[kind |-> "signal",
      raw |-> [b \in 1..VisBands |-> IF b < SplitBand THEN lo ELSE hi]] :
        lo \in RawBands \ {Silent}, hi \in RawBands}

\* bands[b] = max(0, min(1, bands[b])) without the ceiling
Clamp01_NoCeiling(x) == Max(0, x)

\* bands[b] = max(0, min(1, bands[b]))
Clamp01(x) == Max(0, Min(LevelScale, x))

\* the level of a band before smoothing: 0 when sum is 0
BandLevel(raw) == Clamp01(IF raw.silent THEN 0 ELSE raw.level)

\* temporal smoothing that forgets the previous level
Smooth_NoHistory(level, prev) == level

\* temporal smoothing: 60/40 when the level rose, 25/75 otherwise
Smooth(level, prev) ==
    IF level > prev
    THEN (3 * level + 2 * prev) \div 5
    ELSE (level + 3 * prev) \div 4

\* the decay of a band when Analyze is given no samples: prev * 0.8
Decay(prev) == (4 * prev) \div 5

\* Visualizer.Analyze: the ten levels it returns, which it also stores
AnalyzeBands(prev, in) ==
    [b \in 1..VisBands |->
        IF in.kind = "empty"
        THEN Decay(prev[b])
        ELSE Smooth(BandLevel(in.raw[b]), prev[b])]

Analyze(in) ==
    /\ pc = "idle"
    /\ vis.calls < MaxAnalyze
    /\ vis' = [prev |-> AnalyzeBands(vis.prev, in), calls |-> vis.calls + 1]
    /\ uiRet' =
        [NoUiRet EXCEPT
            !.op = "Analyze",
            !.input = in.kind,
            !.bands = AnalyzeBands(vis.prev, in),
            !.before = vis.prev,
            !.prior = [input |-> uiRet.input, before |-> uiRet.before]]
    /\ UNCHANGED <<playlist, pc, otherVars>>

----------------------------------------------------------------------------
(* The player with its two threads *)

----------------------------------------------------------------------------
(* The chain Play builds, on its own: built for a source rate, then pulled *)
(* with what the decoder yields.  Sample values are abstract: a frame      *)
(* carries its two samples and, in by, the stages that rewrote it, in the  *)
(* order in which they did; a biquad is named by its band and by the gain  *)
(* whose coefficients it applied.  The resampler is taken to yield as many *)
(* frames as it is given.                                                  *)

\* the center frequencies of the ten bands
EQFreqs == <<70, 180, 320, 600, 1000, 3000, 6000, 12000, 14000, 16000>>

Frame(l, r) == [l |-> l, r |-> r, by |-> <<>>]

\* the zero value of x1, x2, y1, y2
ZeroFrame == Frame(0, 0)

\* the source rates the chain is built for, and what the decoder yields in
\* one pull: nothing, or two frames
ChainRates == {Tracks["a"].rate, Tracks["b"].rate}
ChainInputs == {<<>>, <<Frame(2, 2), Frame(-4, 6)>>}

\* the writes of SetEQBand alongside the pulls: band 0 to -3 dB; band 9 to
\* 0 dB, to 0.05 dB (inside the bypass range), to the first value at or
\* past 0.1 dB (outside it) and to -3 dB
EdgeGain == (DbScale + 9) \div 10
ChainWrites ==
    {<<0, 0 - 3 * DbScale>>, <<NumBands - 1, 0>>,
     <<NumBands - 1, DbScale \div 20>>, <<NumBands - 1, EdgeGain>>,
     <<NumBands - 1, 0 - 3 * DbScale>>}

\* s = wrap(s, ...): the new stage streams from the chain so far
Around(s, stage) == Append(s, stage)

\* the ten biquads around s, band 9 innermost
RECURSIVE Biquads_Band9First(_, _)
Biquads_Band9First(s, i) ==
    IF i >= NumBands THEN s
    ELSE Biquads_Band9First(
            Around(s, [kind |-> "biquad", band |-> NumBands - 1 - i,
                       freq |-> EQFreqs[NumBands - i],
                       gain |-> NumBands - i]),
            i + 1)

\* for i := range 10 { s = newBiquad(s, EQFreqs[i], 1.4, &p.eqBands[i],
\* float64(p.sr)) }, from band i on; gain is the cell the stage reads
RECURSIVE Biquads(_, _)
Biquads(s, i) ==
    IF i >= NumBands THEN s
    ELSE Biquads(Around(s, [kind |-> "biquad", band |-> i,
                            freq |-> EQFreqs[i + 1], gain |-> i + 1]),
                 i + 1)

\* the chain Play builds on a decoder of the given rate, innermost stage
\* first: resampler when the rates differ, ten biquads, volume, tap, gate
PlayChain(rate) ==
    LET s0 == <<[kind |-> "decoder"]>>
        s1 == IF rate # DeviceRate
              THEN Around(s0, [kind |-> "resample"])
              ELSE s0
        s2 == Biquads(s1, 0)
        s3 == Around(s2, [kind |-> "volume"])
        s4 == Around(s3, [kind |-> "tap"])
    IN  Around(s4, [kind |-> "ctrl"])

\* newBiquad: the cache, the zeroed history of the recurrence, and the
\* number of times calcCoeffs went past its early return
NewStage ==
    [c |-> NewBiquad, x1 |-> ZeroFrame, x2 |-> ZeroFrame, y1 |-> ZeroFrame,
     y2 |-> ZeroFrame, ncalc |-> 0]

\* no chain yet.  Of a chain: the source rate and the stages, the ten
\* biquads, and of the last pull the gains read (g), the frames entering
\* and leaving each biquad (eqin, eqout), the frames handed to the tap
\* (tapped) and those the gate returned (ret); every gain each biquad has
\* read (reads)
NewChain ==
    [rate |-> 0, stages |-> <<>>,
     eq |-> [i \in 1..NumBands |-> NewStage],
     g |-> <<>>,
     eqin |-> [i \in 1..NumBands |-> <<>>],
     eqout |-> [i \in 1..NumBands |-> <<>>],
     src |-> <<>>, tapped |-> <<>>, ret |-> <<>>,
     reads |-> [i \in 1..NumBands |-> <<>>],
     npulls |-> 0]

\* a stage other than a biquad rewrote the frames
Stamped(frames, stage) ==
    [k \in 1..Len(frames) |->
        [frames[k] EXCEPT !.by = Append(@, [stage |-> stage])]]

\* y := b.b0*x + b.b1*b.x1 + b.b2*b.x2 - b.a1*b.y1 - b.a2*b.y2, with the
\* cached coefficients of stage band
Filtered(band, c, x) ==
    [x EXCEPT !.by = Append(@, [band |-> band, coefOf |-> c.coefOf])]

\* a calcCoeffs that recomputes at every call
BiquadCalc_Uncached(st, dB) ==
    [st EXCEPT !.c = [inited |-> TRUE, lastGain |-> dB, coefOf |-> dB],
               !.ncalc = @ + 1]

\* b.calcCoeffs(dB), counting the calls that go past the early return
BiquadCalc(st, dB) ==
    [st EXCEPT !.c = calcCoeffs(st.c, dB),
               !.ncalc = IF st.c.inited /\ dB = st.c.lastGain
                         THEN @ ELSE @ + 1]

\* the loop of biquad.Stream over the frames upstream yielded
RECURSIVE Recurrence(_, _, _)
Recurrence(band, st, frames) ==
    IF frames = <<>>
    THEN [st |-> st, out |-> <<>>]
    ELSE LET x == Head(frames)
             y == Filtered(band, st.c, x)
             r == Recurrence(band,
                             [st EXCEPT !.x2 = st.x1, !.x1 = x,
                                        !.y2 = st.y1, !.y1 = y],
                             Tail(frames))
         IN  [st |-> r.st, out |-> <<y>> \o r.out]

\* a biquad.Stream that filters with the coefficients it holds
BiquadStream_NoCalc(band, st, dB, frames) ==
    IF Bypass(dB)
    THEN [st |-> st, out |-> frames]
    ELSE Recurrence(band, st, frames)

\* biquad.Stream of stage band on the gain dB it read and the frames
\* upstream yielded
BiquadStream(band, st, dB, frames) ==
    IF Bypass(dB)
    THEN [st |-> st, out |-> frames]
    ELSE Recurrence(band, BiquadCalc(st, dB), frames)

\* Stream of stage k of the chain and of those around it: each stage calls
\* upstream first, so the frames pass the stages innermost first
RECURSIVE StreamThrough(_, _, _)
StreamThrough(k, ch, frames) ==
    IF k > Len(ch.stages)
    THEN [ch EXCEPT !.ret = frames]
    ELSE LET s == ch.stages[k]
         IN  IF s.kind = "decoder"
             THEN StreamThrough(k + 1, [ch EXCEPT !.src = frames], frames)
             ELSE IF s.kind = "resample"
             THEN StreamThrough(k + 1, ch, Stamped(frames, "resample"))
             ELSE IF s.kind = "biquad"
             THEN LET i == s.band + 1
                      r == BiquadStream(s.band, ch.eq[i], ch.g[s.gain],
                                        frames)
                  IN  StreamThrough(k + 1,
                                    [ch EXCEPT !.eq[i] = r.st,
                                               !.eqin[i] = frames,
                                               !.eqout[i] = r.out],
                                    r.out)
             ELSE IF s.kind = "volume"
             THEN StreamThrough(k + 1, ch, Stamped(frames, "volume"))
             ELSE IF s.kind = "tap"
             THEN StreamThrough(k + 1, [ch EXCEPT !.tapped = frames], frames)
             ELSE StreamThrough(k + 1, ch, frames)

\* Play, lines 64-83: the chain is built on a decoder of the given rate
ChainBuild(rate) ==
    /\ chain.stages = <<>>
    /\ chain' = [NewChain EXCEPT !.rate = rate, !.stages = PlayChain(rate)]
    /\ UNCHANGED <<playlist, vis, uiRet, locks, pc, playerVars, paramVars,
                   trackDone, lockVars, mixer, pipes, files, nplays, nseeks,
                   cur, ret, audioVars, written>>

\* one pull of the gate with the decoder yielding the given frames; each
\* biquad reads its gain cell
ChainStream(frames) ==
    /\ chain.stages # <<>>
    /\ chain.npulls < MaxPulls
    /\ LET g == [i \in 1..NumBands |-> GainRead(chain.eq[i].c, i)]
       IN  chain' =
            [StreamThrough(1, [chain EXCEPT !.g = g], frames) EXCEPT
                !.reads = [i \in 1..NumBands |-> Append(chain.reads[i], g[i])],
                !.npulls = chain.npulls + 1]
    /\ UNCHANGED <<playlist, vis, uiRet, locks, pc, playerVars, paramVars,
                   trackDone, lockVars, mixer, pipes, files, nplays, nseeks,
                   cur, ret, audioVars, written>>

----------------------------------------------------------------------------
(* The locks alone: every Player method and the speaker's pull reduced to  *)
(* the Lock and Unlock calls it makes, in the order it makes them, on the  *)
(* three mutexes: Player.mu ("mu"), the speaker's ("spk", taken by         *)
(* speaker.Lock, speaker.Clear, speaker.Play and held by the speaker       *)
(* around every pull) and Tap.mu ("tap").  One UI thread, one audio        *)
(* thread.                                                                 *)

Acq(l) == <<"acq", l>>
Rel(l) == <<"rel", l>>

\* a Stop that calls speaker.Clear() after taking p.mu
StopLocks_ClearUnderMu == <<Acq("mu"), Acq("spk"), Rel("spk"), Rel("mu")>>

\* Player.Stop: speaker.Clear(), then the body under p.mu
StopLocks == <<Acq("spk"), Rel("spk"), Acq("mu"), Rel("mu")>>

\* Player.Play: Stop; return on an open or decode error; else the build
\* under p.mu, then speaker.Play
PlayLocks ==
    {StopLocks,
     StopLocks \o <<Acq("mu"), Rel("mu"), Acq("spk"), Rel("spk")>>}

\* TogglePause, Seek, Position: speaker.Lock(), defer speaker.Unlock()
SpeakerLocks == {<<Acq("spk"), Rel("spk")>>}

\* Duration, SetVolume, Volume, EQBands, IsPlaying, IsPaused: p.mu only
PlayerLocks == {<<Acq("mu"), Rel("mu")>>}

\* SetEQBand: returns before locking on a band out of range
SetEQBandLocks == {<<>>, <<Acq("mu"), Rel("mu")>>}

\* Samples: p.tap read under p.mu, then Tap.Samples under Tap.mu unless
\* the tap is nil
SamplesLocks ==
    {<<Acq("mu"), Rel("mu")>>,
     <<Acq("mu"), Rel("mu"), Acq("tap"), Rel("tap")>>}

ControlLocks ==
    [Play |-> PlayLocks, Stop |-> {StopLocks}, TogglePause |-> SpeakerLocks,
     Seek |-> SpeakerLocks, Position |-> SpeakerLocks,
     Duration |-> PlayerLocks, SetVolume |-> PlayerLocks,
     SetEQBand |-> SetEQBandLocks, Samples |-> SamplesLocks]

\* one pass of the volume stage and then of the tap, each around its own
\* mutex (Tap.Stream calls upstream before it locks)
StageLocks == <<Acq("mu"), Rel("mu"), Acq("tap"), Rel("tap")>>

\* a pull, under the speaker's mutex: nothing attached or the gate paused;
\* or the mixer streams the chain, once or twice to fill the buffer
PullLocks ==
    {<<Acq("spk"), Rel("spk")>>,
     <<Acq("spk")>> \o StageLocks \o <<Rel("spk")>>,
     <<Acq("spk")>> \o StageLocks \o StageLocks \o <<Rel("spk")>>}

Mutexes == {"mu", "spk", "tap"}

\* no mutex held, no call and no pull under way
NewLocks ==
    [owner |-> [l \in Mutexes |-> "none"],
     ctl |-> [op |-> "none", todo |-> <<>>],
     aud |-> <<>>]

\* owner after thread t has made the Lock or Unlock call ins
Locked(owner, t, ins) ==
    [owner EXCEPT ![ins[2]] = IF ins[1] = "acq" THEN t ELSE "none"]

\* thread t can make the call: Lock returns only on a free mutex
CanStep(t, todo) ==
    /\ todo # <<>>
    /\ Head(todo)[1] = "acq" => locks.owner[Head(todo)[2]] = "none"

\* the UI thread enters a Player method
LockCall(op) ==
    /\ locks.ctl.todo = <<>>
    /\ \E todo \in ControlLocks[op] :
        locks' = [locks EXCEPT !.ctl = [op |-> op, todo |-> todo]]
    /\ UNCHANGED <<playlist, vis, uiRet, chain, pc, playerVars, paramVars,
                   trackDone, lockVars, mixer, pipes, files, nplays, nseeks,
                   cur, ret, audioVars, written>>

\* the UI thread makes the next Lock or Unlock call of its method
LockStep ==
    /\ CanStep("ctl", locks.ctl.todo)
    /\ locks' = [locks EXCEPT
                    !.owner = Locked(@, "ctl", Head(locks.ctl.todo)),
                    !.ctl.todo = Tail(@)]
    /\ UNCHANGED <<playlist, vis, uiRet, chain, pc, playerVars, paramVars,
                   trackDone, lockVars, mixer, pipes, files, nplays, nseeks,
                   cur, ret, audioVars, written>>

\* the speaker begins a pull
PullCall ==
    /\ locks.aud = <<>>
    /\ \E todo \in PullLocks : locks' = [locks EXCEPT !.aud = todo]
    /\ UNCHANGED <<playlist, vis, uiRet, chain, pc, playerVars, paramVars,
                   trackDone, lockVars, mixer, pipes, files, nplays, nseeks,
                   cur, ret, audioVars, written>>

\* the audio thread makes the next Lock or Unlock call of the pull
PullStep ==
    /\ CanStep("aud", locks.aud)
    /\ locks' = [locks EXCEPT
                    !.owner = Locked(@, "aud", Head(locks.aud)),
                    !.aud = Tail(@)]
    /\ UNCHANGED <<playlist, vis, uiRet, chain, pc, playerVars, paramVars,
                   trackDone, lockVars, mixer, pipes, files, nplays, nseeks,
                   cur, ret, audioVars, written>>

\* player.New: nothing loaded, volume and EQ at 0 dB
\* playlist.New: no tracks, position 0, shuffle off, RepeatOff
NewPlaylist ==
    [ntracks |-> 0, order |-> <<>>, pos |-> 0, shuffle |-> FALSE, repeat |-> 0]

\* NewVisualizer: prev all zero
NewVisualizer == [prev |-> [b \in 1..VisBands |-> 0], calls |-> 0]

Init ==
    /\ streamer = Nil /\ file = Nil /\ format = 0 /\ ctrl = Nil /\ tap = Nil
    /\ volume = 0
    /\ eqBands = [i \in 1..NumBands |-> 0]
    /\ eqDirty = {}
    /\ trackDone = FALSE /\ playing = FALSE /\ paused = FALSE
    /\ muOwner = "none" /\ spkOwner = "none"
    /\ mixer = {} /\ pipes = <<>> /\ files = <<>> /\ nplays = 0
    /\ nseeks = 0
    /\ pc = "idle" /\ cur = NoCall
    /\ ret = NoRet
    /\ apc = "idle" /\ acur = NoPull /\ out = NoOut
    /\ written = <<>>
    /\ playlist = NewPlaylist
    /\ vis = NewVisualizer
    /\ uiRet = NoUiRet
    /\ chain = NewChain
    /\ locks = NewLocks

Next ==
    \/ \E path \in Paths : PlayCall(path)
    \/ StopCall
    \/ StopClear
    \/ StopLock
    \/ StopBody
    \/ PlayOpen
    \/ PlayDecode
    \/ PlayLock
    \/ PlayBuild
    \/ PlayAttach
    \/ TogglePauseCall
    \/ TogglePauseLock
    \/ TogglePauseBody
    \/ \E d \in SeekDeltas : SeekCall(d)
    \/ SeekLock
    \/ SeekBody
    \/ AudioLock
    \/ AudioStream
    \/ AudioVolume
    \/ AudioUnlock

Spec == Init /\ [][Next]_vars

----------------------------------------------------------------------------
(* Properties of the player's life cycle *)

Loaded(snap) ==
    /\ snap.streamer # Nil /\ snap.file # Nil /\ snap.ctrl # Nil
    /\ snap.tap # Nil /\ snap.playing

NothingLoaded(snap) ==
    /\ snap.streamer = Nil /\ snap.file = Nil /\ snap.ctrl = Nil
    /\ snap.tap = Nil /\ ~snap.playing /\ ~snap.paused

SameFields(a, b) ==
    /\ a.streamer = b.streamer /\ a.file = b.file /\ a.ctrl = b.ctrl
    /\ a.tap = b.tap /\ a.playing = b.playing /\ a.paused = b.paused

\* the step in which a Play call returns an error
FailedPlayReturns ==
    /\ cur.op = "Play"
    /\ pc # "idle" /\ pc' = "idle"
    /\ ret'.op = "Play" /\ ret'.err # "nil"

\* C1: when Play fails to open or decode its source, the error is returned
\* and the player is as it was when Play was called: a track that was loaded
\* and playing is still loaded, open, attached and playing (same streamer,
\* file, gate, tap, playing and paused flags).
C1_FailedPlayLeavesPriorPipeline ==
    [][FailedPlayReturns =>
          /\ SameFields(Snapshot', cur.pre)
          /\ Loaded(cur.pre) =>
                /\ ~pipes'[cur.pre.streamer].closed
                /\ files'[cur.pre.file]
                /\ cur.pre.attached \subseteq mixer']_vars

\* C2: the speaker never has two pipelines attached, never has a closed
\* decoder or a closed file attached, and never is in the middle of a pull
\* from a closed decoder; and while a pipeline is attached every other
\* pipeline ever built has its decoder and its file closed, so the old one
\* was released and detached before the new one could produce a frame.
C2_ReplacementIsAtomic ==
    /\ Cardinality(mixer) <= 1
    /\ \A id \in mixer :
          /\ ~pipes[id].closed
          /\ files[pipes[id].file]
          /\ id = ctrl
          /\ \A other \in DOMAIN pipes \ {id} :
                pipes[other].closed /\ ~files[pipes[other].file]
    /\ acur.id # Nil => ~pipes[acur.id].closed

\* C2's case: a second track replaced a first one and has produced frames
C2_Witness_SecondTrackPlays ==
    \E id \in mixer :
        /\ id >= 2
        /\ pipes[id].pos > 0
        /\ pipes[1].closed

AllReleased ==
    /\ \A id \in DOMAIN pipes : pipes[id].closed
    /\ \A f \in DOMAIN files : ~files[f]

\* C3: when Stop has returned, streamer, file, gate and tap are absent,
\* playing and paused are false, nothing is attached to the speaker and
\* every decoder and file opened so far is closed; and a Stop called when
\* nothing is loaded (the first call, or right after another Stop) leaves
\* the player exactly as it was.
C3_StopReleasesAndIsIdempotent ==
    /\ [](pc = "idle" /\ ret.op = "Stop" =>
            /\ NothingLoaded(Snapshot)
            /\ ~trackDone
            /\ mixer = {}
            /\ muOwner = "none"
            /\ AllReleased)
    /\ [][(pc = "stop_body" /\ cur.op = "Stop" /\ NothingLoaded(cur.pre)) =>
            /\ Snapshot' = cur.pre
            /\ UNCHANGED <<pipes, files, format, volume, eqBands>>]_vars

\* C3's case: Stop has returned after a track had been loaded
C3_Witness_StoppedAfterLoad ==
    /\ pc = "idle" /\ ret.op = "Stop"
    /\ Len(pipes) >= 1 /\ pipes[1].closed /\ ~files[1]

\* the audio thread's callback stores true: the pulled pipeline is the
\* loaded one, its decoder is exhausted, and it is the first time
FlagSetByExhaustion ==
    /\ apc = "volume"
    /\ acur.id = streamer
    /\ pipes[acur.id].pos = pipes[acur.id].len
    /\ pipes[acur.id].callbacks = 0
    /\ pipes'[acur.id].callbacks = 1

SetsOncePerTrack ==
    /\ [][(~trackDone /\ trackDone') => FlagSetByExhaustion]_vars
    /\ [](\A id \in DOMAIN pipes : pipes[id].callbacks <= 1)

\* C8 as stated: the flag is set once per loaded track, when its stream is
\* exhausted, and only the start of a new track clears it (a Play call whose
\* source opens and decodes).
C8_Original_ClearedOnlyByNewTrack ==
    /\ SetsOncePerTrack
    /\ [][(trackDone /\ ~trackDone') =>
            (cur.op = "Play" /\ Tracks[cur.path].kind = "ok")]_vars

\* C8, amended: the flag is set at most once per loaded track, by the audio
\* thread when that track's decoder is exhausted; it is cleared by the body
\* of Stop (a Stop call, or the Stop that begins every Play, whether that
\* Play then succeeds or fails) and by Play when it stores the new track,
\* and by nothing else.
C8_ClearedByStopOrNewTrack ==
    /\ SetsOncePerTrack
    /\ [][(trackDone /\ ~trackDone') => pc \in {"stop_body", "play_build"}]_vars

\* C8's case: the loaded track ran out, the flag is set, and a Stop call is
\* about to clear it
C8_Witness_StopClearsSetFlag ==
    /\ trackDone
    /\ pc = "stop_body" /\ cur.op = "Stop"
    /\ streamer # Nil /\ pipes[streamer].callbacks = 1

\* a step of the audio thread that pulls through the loaded gate while it
\* is paused
PausedPull ==
    /\ apc = "stream" /\ apc' # apc
    /\ ctrl # Nil /\ ctrl \in mixer
    /\ pipes[ctrl].stage = "ctrl" /\ pipes[ctrl].gatePaused

UpstreamUntouched ==
    /\ pipes' = pipes
    /\ trackDone' = trackDone

\* C9 as stated: a pull through the paused gate reports that no frames were
\* produced, not silence, and leaves decoder position, tap and end-of-track
\* flag alone.
C9_Original_PausedGateYieldsNoFrames ==
    [][PausedPull => (out'.n = 0 /\ out'.kind # "silence" /\ UpstreamUntouched)]_vars

\* C9, amended: a pull through the paused gate does not pull the upstream
\* chain (decoder position, tap and end-of-track flag are unchanged) and
\* returns a full buffer of silence with ok = true; and no step of the audio
\* thread changes the loaded pipeline or the flag while its gate is paused.
C9_PausedGateStreamsSilence ==
    /\ [][PausedPull =>
            /\ out' = [NoOut EXCEPT !.kind = "silence", !.id = ctrl, !.n = BufFrames,
                                   !.ok = TRUE]
            /\ UpstreamUntouched]_vars
    /\ [][(apc' # apc /\ ctrl # Nil /\ pipes[ctrl].gatePaused) =>
            (pipes'[ctrl] = pipes[ctrl] /\ trackDone' = trackDone)]_vars

\* C9's case: the gate was paused after frames had been played, and a pull
\* has just gone through it
C9_Witness_PulledWhilePaused ==
    /\ out.kind = "silence"
    /\ paused
    /\ pipes[ctrl].pos > 0


----------------------------------------------------------------------------
(* Seek arithmetic: the control plane alone, over tracks and deltas that   *)
(* reach both clamps and the wrap-around of time.Duration.                  *)

NextSeek ==
    \/ \E path \in SeekPaths : PlayCall(path)
    \/ StopCall
    \/ StopClear
    \/ StopLock
    \/ StopBody
    \/ PlayOpen
    \/ PlayDecode
    \/ PlayLock
    \/ PlayBuild
    \/ PlayAttach
    \/ \E d \in WideDeltas : SeekCall(d)
    \/ SeekLock
    \/ SeekBody
    \/ Position
    \/ Duration

SpecSeek == Init /\ [][NextSeek]_vars

\* C4: every Seek on a loaded track returns without error, and the index it
\* hands to the decoder is at least 0 and below the track's Len()
C4_SeekIndexInRange ==
    (pc = "idle" /\ ret.op = "Seek" /\ streamer # Nil) =>
        /\ ret.err = "nil"
        /\ 0 <= ret.val
        /\ ret.val < pipes[streamer].len
        /\ pipes[streamer].pos = ret.val

\* the largest delta from a position past the start: curDur + d wraps
\* around, and the forward seek lands in the track, no further than where it
\* began
C4_Witness_WrappedDeltaInRange ==
    /\ pc = "idle" /\ ret.op = "Seek" /\ streamer # Nil
    /\ ret.arg = MaxInt /\ ret.arg2 > 0
    /\ ret.val <= ret.arg2 /\ ret.err = "nil"

\* Position() called right after Seek(+15 s) on the freshly loaded ten-second
\* track has returned
AfterSeekPastEnd ==
    /\ pc = "idle" /\ ret.op = "Position"
    /\ ret.prev = [op |-> "Seek", arg |-> 15 * Second, arg2 |-> 0]
    /\ streamer # Nil /\ pipes[streamer].path = "tenSeconds"

\* C5 as stated: that Position() is 10 s
C5_Original_PositionIsTenSeconds ==
    AfterSeekPastEnd => ret.val = 10 * Second

\* C5: that Position() is the time of the last frame, index Len() - 1: it is
\* not negative and it is short of the 10 s the track lasts
C5_PositionIsLastFrame ==
    AfterSeekPastEnd =>
        /\ pipes[streamer].pos = 441000 - 1
        /\ ret.val = D(DeviceRate, 441000 - 1)
        /\ 0 <= ret.val
        /\ ret.val < 10 * Second

C5_Witness_PositionAfterSeekPastEnd ==
    AfterSeekPastEnd /\ ret.val < D(DeviceRate, 441000)


----------------------------------------------------------------------------
(* Volume and equalizer parameters: the setters and getters, on a player   *)
(* with and without a track.                                                *)

NextParams ==
    \/ \E path \in {"a", "missing"} : PlayCall(path)
    \/ StopCall
    \/ StopClear
    \/ StopLock
    \/ StopBody
    \/ PlayOpen
    \/ PlayDecode
    \/ PlayLock
    \/ PlayBuild
    \/ PlayAttach
    \/ \E db \in VolInputs : SetVolume(db)
    \/ Volume
    \/ \E band \in BandInputs, dB \in EQInputs : SetEQBand(band, dB)
    \/ EQBands

SpecParams == Init /\ [][NextParams]_vars

\* x brought into [lo, hi]
ClampTo(x, lo, hi) == IF x < lo THEN lo ELSE IF x > hi THEN hi ELSE x

\* C6: Volume() right after SetVolume(x) returns x clamped to [-30, +6] dB,
\* and the stored volume is always within these limits
C6_VolumeRoundTrip ==
    /\ VolMin * DbScale <= volume /\ volume <= VolMax * DbScale
    /\ (ret.op = "Volume" /\ ret.prev.op = "SetVolume") =>
          ret.val = ClampTo(ret.prev.arg, VolMin * DbScale, VolMax * DbScale)

C6_Witness_ClampedFromBelow ==
    /\ ret.op = "Volume" /\ ret.prev.op = "SetVolume"
    /\ ret.prev.arg = VolMin * DbScale - 1
    /\ ret.val = VolMin * DbScale

\* a step of SetEQBand
SetEQBandReturns == pc = "idle" /\ pc' = "idle" /\ ret'.op = "SetEQBand"

\* C7: EQBands() right after SetEQBand(i, x) with 0 <= i <= 9 has x clamped
\* to [-12, +12] dB at index i; that SetEQBand changes no other band; and
\* SetEQBand with any other index changes nothing of the player
C7_SetEQBandClampsOrIgnores ==
    /\ [](\A b \in 0..(NumBands - 1) :
            (ret.op = "EQBands" /\ ret.prev.op = "SetEQBand" /\ ret.prev.arg = b)
            => ret.arr[b + 1] = ClampTo(ret.prev.arg2, EQMin * DbScale,
                                        EQMax * DbScale))
    /\ [][SetEQBandReturns =>
            /\ \A b \in 0..(NumBands - 1) :
                  b # ret'.arg => eqBands'[b + 1] = eqBands[b + 1]
            /\ ret'.arg \notin 0..(NumBands - 1) => eqBands' = eqBands
            /\ UNCHANGED <<playerVars, volume, trackDone, lockVars, mixer,
                           pipes, files, nplays, nseeks, cur, audioVars,
                           written>>]_vars

\* EQBands() after a SetEQBand(10, x) that came when band 9 was already set
C7_Witness_IndexTenIgnored ==
    /\ ret.op = "EQBands" /\ ret.prev.op = "SetEQBand"
    /\ ret.prev.arg = NumBands /\ ret.prev.arg2 = EQMax * DbScale + 1
    /\ ret.arr[NumBands] = EQMin * DbScale
    /\ streamer # Nil

----------------------------------------------------------------------------
(* The visualization tap: pulls of arbitrary frames through the current    *)
(* tap, and snapshots of it.                                                *)

NextTap ==
    \/ PlayCall("a")
    \/ StopCall
    \/ StopClear
    \/ StopLock
    \/ StopBody
    \/ PlayOpen
    \/ PlayDecode
    \/ PlayLock
    \/ PlayBuild
    \/ PlayAttach
    \/ \E frames \in TapChunks, ok \in BOOLEAN : TapPull(frames, ok)
    \/ \E n \in SampleCounts : Samples(n)

SpecTap == Init /\ [][NextTap]_vars

\* the last n elements of s
LastN(s, n) == SubSeq(s, Len(s) - n + 1, Len(s))

\* C10: for every n up to the capacity, Samples(n) is the last n elements of
\* the capacity's zeros followed by every downmix written, in write order
C10_SamplesAreLastWritten ==
    tap # Nil =>
        \A n \in 0..TapCap :
            /\ Len(TapSamples(pipes[tap].tap, n)) = n
            /\ TapSamples(pipes[tap].tap, n) = LastN(Zeros(TapCap) \o written, n)
            /\ Len(written) >= n => TapSamples(pipes[tap].tap, n) = LastN(written, n)

\* Samples(capacity) has returned the newest frames of a ring written past
\* its capacity
C10_Witness_RingWrapped ==
    /\ tap # Nil /\ Len(written) > TapCap
    /\ ret.op = "Samples" /\ ret.arg = TapCap
    /\ ret.arr = LastN(written, TapCap)
    /\ ret.arr = TapSamples(pipes[tap].tap, TapCap)


\* a step in which Samples returns
SamplesReturns == pc = "idle" /\ pc' = "idle" /\ ret'.op = "Samples" /\ ret' # ret

\* C11: Tap.Stream returns the frame count and the ok flag upstream gave it
\* and leaves the sample values as upstream filled them; Samples changes
\* neither the ring nor its cursor, so that a second Samples(n) with no pull
\* in between returns what the first one returned.
C11_TapIsNonDestructive ==
    /\ [](out.kind = "tap" =>
            /\ out.n = acur.n
            /\ out.ok = acur.ok
            /\ out.samples = acur.frames)
    /\ [][SamplesReturns => (pipes' = pipes /\ written' = written)]_vars
    /\ [][(SamplesReturns /\ tap # Nil) =>
            TapSamples(pipes'[tap].tap, ret'.arg) = ret'.arr]_vars

\* a snapshot of a wrapped tap that has just passed on a pull of two frames
\* with ok = false
C11_Witness_PulledThenSnapshot ==
    /\ out.kind = "tap" /\ out.n = 2 /\ ~out.ok
    /\ out.samples = <<<<2, 4>>, <<-4, 2>>>>
    /\ ret.op = "Samples" /\ ret.arg = TapCap
    /\ Len(written) > TapCap
    /\ ret.arr = TapSamples(pipes[tap].tap, TapCap)

----------------------------------------------------------------------------
(* The playlist alone: every operation of playlist.Playlist on a playlist *)
(* of up to MaxTracks tracks                                               *)

NextPlaylist ==
    \/ \E k \in AddCounts : PlaylistAdd(k)
    \/ PlaylistCurrent
    \/ PlaylistIndex
    \/ PlaylistNext
    \/ PlaylistPrev
    \/ \E i \in IndexInputs : PlaylistSetIndex(i)
    \/ ToggleShuffle
    \/ CycleRepeat

SpecPlaylist == Init /\ [][NextPlaylist]_vars

\* a call of op on a playlist that holds at least one track
PlaylistReturns(op) ==
    /\ uiRet'.op = op
    /\ <<playlist, uiRet>>' # <<playlist, uiRet>>
    /\ playlist.ntracks > 0

\* C12: Next on a non-empty playlist returns the current track and true
\* without moving under RepeatOne; otherwise it moves one position on when
\* there is one; at the last position it goes to position 0 and returns
\* true under RepeatAll, and under RepeatOff it returns false and leaves
\* the position and the current track where they were.
C12_NextContract ==
    [][PlaylistReturns("Next") =>
        LET p == playlist
            q == playlist'
            atLast == ~(p.pos + 1 < Len(p.order))
        IN  /\ p.repeat = RepeatOne =>
                /\ q.pos = p.pos /\ Current(q) = Current(p)
                /\ uiRet'.ok /\ uiRet'.track = Current(p).track
            /\ (p.repeat # RepeatOne /\ ~atLast) =>
                /\ q.pos = p.pos + 1 /\ q.order = p.order
                /\ uiRet'.ok /\ uiRet'.track = p.order[p.pos + 2]
            /\ (p.repeat = RepeatAll /\ atLast) =>
                /\ q.pos = 0
                /\ uiRet'.ok /\ uiRet'.track = Current(q).track
            /\ (p.repeat = RepeatOff /\ atLast) =>
                /\ ~uiRet'.ok /\ uiRet'.track = NoTrack
                /\ q.pos = p.pos /\ Current(q) = Current(p)]_vars

\* Next was refused at the last of several positions under RepeatOff
C12_Witness_RefusedAtEnd ==
    /\ uiRet.op = "Next" /\ ~uiRet.ok
    /\ playlist.ntracks >= 2 /\ playlist.repeat = RepeatOff
    /\ uiRet.pre.pos = playlist.ntracks - 1
    /\ playlist.pos = playlist.ntracks - 1

\* C13: Prev on a non-empty playlist always returns true and a track of the
\* playlist: one position back when not at the first position; at the first
\* position the last position under RepeatAll, and otherwise the first
\* position again with the current track.
C13_PrevContract ==
    [][PlaylistReturns("Prev") =>
        LET p == playlist
            q == playlist'
        IN  /\ uiRet'.ok
            /\ uiRet'.track \in 0..(p.ntracks - 1)
            /\ uiRet'.track = Current(q).track
            /\ q.order = p.order
            /\ p.pos > 0 => q.pos = p.pos - 1
            /\ (p.pos = 0 /\ p.repeat = RepeatAll) =>
                q.pos = Len(p.order) - 1
            /\ (p.pos = 0 /\ p.repeat # RepeatAll) =>
                q.pos = 0 /\ uiRet'.track = Current(p).track]_vars

\* Prev stayed at the first of several positions without RepeatAll
C13_Witness_StaysAtFirst ==
    /\ uiRet.op = "Prev" /\ uiRet.ok
    /\ playlist.ntracks >= 2 /\ playlist.repeat = RepeatOne
    /\ uiRet.pre.pos = 0 /\ playlist.pos = 0
    /\ uiRet.track = uiRet.pre.idx

\* C14: ToggleShuffle on a non-empty playlist keeps the current track:
\* switching shuffle on puts it at position 0 of the new order with pos 0,
\* switching it off restores the order 0, 1, 2, ... with pos the index of
\* the current track, so Current is the same before and after.
C14_ToggleShuffleKeepsCurrent ==
    [][PlaylistReturns("ToggleShuffle") =>
        LET p == playlist
            q == playlist'
        IN  /\ q.shuffle = ~p.shuffle
            /\ Current(q) = Current(p)
            /\ q.shuffle =>
                q.pos = 0 /\ q.order[1] = Current(p).idx
            /\ ~q.shuffle =>
                /\ q.order = [i \in 1..p.ntracks |-> i - 1]
                /\ q.pos = Current(p).idx]_vars

\* shuffle was switched off while the last track was current at position 0
C14_Witness_UnshuffledAtLastTrack ==
    /\ uiRet.op = "ToggleShuffle" /\ ~uiRet.panic
    /\ ~playlist.shuffle /\ playlist.ntracks = MaxTracks
    /\ uiRet.pre.pos = 0 /\ uiRet.pre.idx = MaxTracks - 1
    /\ playlist.pos = MaxTracks - 1
    /\ Current(playlist).idx = uiRet.pre.idx

----------------------------------------------------------------------------
(* The analyzer alone: up to MaxAnalyze calls of Analyze in a row *)

NextVis == \E in \in AnalyzeInputs : Analyze(in)

SpecVis == Init /\ [][NextVis]_vars

\* the last two calls were Analyze on non-empty all-zero samples
TwoZeroCalls ==
    /\ uiRet.op = "Analyze"
    /\ uiRet.input = "zeros"
    /\ uiRet.prior.input = "zeros"

\* C15 as stated: the second of two consecutive Analyze calls on non-empty
\* all-zero samples returns 0 for all ten bands, whatever the smoothing
\* state was before the first call.
C15_Original_SecondZeroCallYieldsZero ==
    TwoZeroCalls => \A b \in 1..VisBands : uiRet.bands[b] = 0

\* C15: each Analyze call on non-empty all-zero samples returns 0.75 times
\* the previous level of every band, so the second of two consecutive such
\* calls returns 0.5625 times the level held before the first; it is 0 for
\* a band exactly when that level was 0.
C15_ZeroInputDecaysByThreeQuarters ==
    /\ (uiRet.op = "Analyze" /\ uiRet.input = "zeros") =>
        \A b \in 1..VisBands : 4 * uiRet.bands[b] = 3 * uiRet.before[b]
    /\ TwoZeroCalls =>
        \A b \in 1..VisBands :
            /\ 16 * uiRet.bands[b] = 9 * uiRet.prior.before[b]
            /\ uiRet.bands[b] = 0 <=> uiRet.prior.before[b] = 0

\* two all-zero calls after a call that raised the first band and left the
\* last one at 0
C15_Witness_StillDecaying ==
    /\ TwoZeroCalls
    /\ uiRet.prior.before[1] > 0 /\ uiRet.bands[1] > 0
    /\ uiRet.prior.before[VisBands] = 0 /\ uiRet.bands[VisBands] = 0

\* C16: after any sequence of Analyze calls every returned level and every
\* stored previous level is in [0,1], and the stored previous level of each
\* band is the level just returned for it.
C16_LevelsNormalized ==
    /\ \A b \in 1..VisBands : vis.prev[b] \in 0..LevelScale
    /\ uiRet.op = "Analyze" =>
        \A b \in 1..VisBands :
            /\ uiRet.bands[b] \in 0..LevelScale
            /\ vis.prev[b] = uiRet.bands[b]

\* MaxAnalyze calls, the last one with a signal, left the first band above
\* one half and the last band at 0
C16_Witness_AfterSignal ==
    /\ uiRet.op = "Analyze" /\ uiRet.input = "signal"
    /\ vis.calls = MaxAnalyze
    /\ uiRet.bands[1] > uiRet.before[1]
    /\ 2 * uiRet.bands[1] > LevelScale
    /\ uiRet.bands[VisBands] = 0

----------------------------------------------------------------------------
(* Failed loads and locking, under Spec *)

\* Play returns an error: os.Open or mp3.Decode failed
PlayFails ==
    /\ pc \in {"play_open", "play_decode"}
    /\ pc' = "idle"

\* the pipelines the audio thread can pull from: those attached to the
\* speaker and the one a running pull is in
Pullable == mixer \cup (IF acur.id # Nil THEN {acur.id} ELSE {})

\* C17: a Play that fails to open or decode stores no field of a pipeline in
\* the player (streamer, file, gate, tap, format) and attaches nothing to
\* the speaker, the audio thread never pulls from a pipeline whose chain is
\* not fully built, and the file the failed call opened is closed.
C17_FailedPlayIsAllOrNothing ==
    /\ [](\A id \in Pullable : pipes[id].built)
    /\ [][format' # format => pc = "play_build"]_vars
    /\ [][PlayFails =>
            /\ ret'.op = "Play" /\ ret'.err \in {"open", "decode"}
            /\ streamer' = Nil /\ file' = Nil /\ ctrl' = Nil /\ tap' = Nil
            /\ ~playing' /\ ~paused'
            /\ format' = format
            /\ mixer' = {}
            /\ pipes' = pipes
            /\ \A f \in 1..Len(files') : ~files'[f]
            /\ pc = "play_open" => files' = files
            /\ pc = "play_decode" => (files[cur.f] /\ ~files'[cur.f])]_vars

\* a second Play failed in mp3.Decode after a first one had loaded a track:
\* both files are closed and nothing is loaded or attached
C17_Witness_DecodeFailedAfterLoad ==
    /\ pc = "idle" /\ ret.op = "Play" /\ ret.err = "decode"
    /\ nplays = 2 /\ Len(files) = 2 /\ Len(pipes) = 1
    /\ ~files[1] /\ ~files[2]
    /\ streamer = Nil /\ file = Nil /\ ctrl = Nil /\ tap = Nil
    /\ mixer = {} /\ format # 0

\* the control thread is in the body of a method that reads or writes the
\* structural fields of the player (streamer, file, format, ctrl, tap,
\* playing, paused) or the decoder's position
InStructuralBody == pc \in {"stop_body", "play_build", "pause_body", "seek_body"}

\* C18: every control-plane read or write of the structural pipeline state,
\* those of Seek and TogglePause included, is made while the control thread
\* holds the player mutex p.mu that Play and Stop hold when they write it.
C18_StructuralStateUnderPlayerMutex == InStructuralBody => muOwner = "ctl"

\* C19: the gate's paused flag is toggled and the decoder is seeked only
\* while the control thread holds the speaker's mutex, with no pull under
\* way; Stop has cleared the speaker before it closes the decoder and the
\* file; so no pull is ever in progress on a decoder that is being seeked
\* or closed, and none runs on a closed one.
C19_NoStructuralChangeDuringPull ==
    /\ [](pc \in {"pause_body", "seek_body"} =>
            (spkOwner = "ctl" /\ apc = "idle" /\ acur.id = Nil))
    /\ [](pc = "stop_body" => (mixer = {} /\ acur.id = Nil))
    /\ [](\A id \in Pullable : ~pipes[id].closed /\ files[pipes[id].file])
    /\ [][\A id \in 1..Len(pipes) :
            (pipes'[id].closed /\ ~pipes[id].closed) =>
                (pc = "stop_body" /\ id = streamer /\ id \notin Pullable)]_vars
    /\ [][\A id \in 1..Len(pipes) :
            (pipes[id].built /\ pipes'[id].built
             /\ pipes'[id].gatePaused # pipes[id].gatePaused) =>
                (pc = "pause_body" /\ id = ctrl)]_vars

\* Stop is closing the decoder of a loaded track while the audio thread is
\* inside a pull that found the speaker cleared
C19_Witness_CloseDuringEmptyPull ==
    /\ pc = "stop_body" /\ streamer # Nil /\ ~pipes[streamer].closed
    /\ apc = "stream" /\ spkOwner = "audio"
    /\ mixer = {} /\ acur.id = Nil

----------------------------------------------------------------------------
(* Live parameters: one track, the volume and one EQ band set while the   *)
(* audio thread pulls                                                      *)

\* inputs of the setters, in 1/DbScale dB: below the volume's floor and 0;
\* above the band's ceiling, inside the biquad's bypass range and -3 dB
LiveVolumes == {VolMin * DbScale - 1, 0}
LiveBand == NumBands - 1
LiveGains == {EQMax * DbScale + 1, DbScale \div 20, 0 - 3 * DbScale}

NextLive ==
    \/ PlayCall("a")
    \/ StopClear
    \/ StopLock
    \/ StopBody
    \/ PlayOpen
    \/ PlayDecode
    \/ PlayLock
    \/ PlayBuild
    \/ PlayAttach
    \/ TogglePauseCall
    \/ TogglePauseLock
    \/ TogglePauseBody
    \/ \E db \in LiveVolumes : SetVolume(db)
    \/ \E dB \in LiveGains : SetEQBand(LiveBand, dB)
    \/ AudioLock
    \/ AudioStream
    \/ AudioVolume
    \/ AudioUnlock

SpecLive == Init /\ [][NextLive]_vars

\* the pull under way has read the gains of its biquads, or the volume
BiquadsHaveRead == apc \in {"volume", "unlock"} /\ acur.eq # <<>>
VolumeRead == apc = "volume" /\ apc' # "volume"

\* C20: what SetVolume and SetEQBand store is the clamped value; the volume
\* stage of every pull reads the volume as it stands; in every pull that
\* began after the last write of a band, the biquad of that band has read
\* that write; and the coefficients a biquad applies are those of the gain
\* it read in the same pull, never those of an older one.
C20_PullsReadLastWrite ==
    /\ [](ret.op = "SetVolume" => volume = ClampVolume(ret.arg))
    /\ []((ret.op = "SetEQBand" /\ ret.arg \in 0..(NumBands - 1)) =>
            eqBands[ret.arg + 1] = ClampEQ(ret.arg2))
    /\ [][VolumeRead => acur'.vol = volume]_vars
    /\ [](BiquadsHaveRead =>
            \A i \in 1..NumBands :
                /\ i \notin eqDirty => acur.eq[i] = eqBands[i]
                /\ ~Bypass(acur.eq[i]) =>
                    /\ pipes[acur.id].eq[i].inited
                    /\ pipes[acur.id].eq[i].coefOf = acur.eq[i])

\* SetEQBand stored -3 dB and the volume is at its floor; a pull that began
\* after the write, past the first frame of the track, has read -3 dB and
\* holds the coefficients of -3 dB
C20_Witness_LaterPullReadsNewGain ==
    /\ apc = "volume"
    /\ ret.op = "SetEQBand" /\ ret.arg2 = 0 - 3 * DbScale
    /\ LiveBand + 1 \notin eqDirty
    /\ eqBands[LiveBand + 1] = 0 - 3 * DbScale
    /\ acur.eq[LiveBand + 1] = 0 - 3 * DbScale
    /\ pipes[acur.id].eq[LiveBand + 1].coefOf = 0 - 3 * DbScale
    /\ pipes[acur.id].pos > 1
    /\ volume = VolMin * DbScale

----------------------------------------------------------------------------
(* The chain on its own: built once, then SetEQBand alongside its pulls    *)

NextEQ ==
    \/ \E rate \in ChainRates : ChainBuild(rate)
    \/ \E w \in ChainWrites : SetEQBand(w[1], w[2])
    \/ \E frames \in ChainInputs : ChainStream(frames)

SpecEQ == Init /\ [][NextEQ]_vars

\* the step is a pull of the chain
ChainPulled == chain'.npulls # chain.npulls

\* a gain strictly between -0.1 dB and 0.1 dB, in 1/DbScale dB
NearZero(dB) == 0 - DbScale < 10 * dB /\ 10 * dB < DbScale

\* every gain in the sequence is strictly between -0.1 dB and 0.1 dB
AllNearZero(gains) == \A k \in 1..Len(gains) : NearZero(gains[k])

\* C21: a stage whose gain cell holds a value strictly between -0.1 dB and
\* 0.1 dB when it is pulled returns the frames upstream yielded as they
\* are and leaves its coefficients, its history and its computation count
\* untouched; a stage that has read only such gains since construction is
\* as newBiquad made it, with no coefficients; and a pull in which all ten
\* stages read such gains hands on exactly what entered the first stage.
C21_BypassIsIdentity ==
    /\ [][ChainPulled =>
            \A i \in 1..NumBands :
                NearZero(eqBands[i]) =>
                    /\ chain'.eqout[i] = chain'.eqin[i]
                    /\ chain'.eq[i] = chain.eq[i]]_vars
    /\ [](\A i \in 1..NumBands :
            AllNearZero(chain.reads[i]) =>
                /\ chain.eq[i] = NewStage
                /\ ~chain.eq[i].c.inited
                /\ chain.eq[i].ncalc = 0)
    /\ []((chain.npulls > 0 /\ AllNearZero(chain.g)) =>
            chain.eqout[NumBands] = chain.eqin[1])

\* band 9 has filtered at -3 dB and was then pulled at 0.05 dB with two
\* frames that band 0 had filtered: it passed them on and kept the
\* coefficients and the history of the earlier pull
C21_Witness_BypassedAfterFiltering ==
    /\ chain.npulls >= 2
    /\ chain.g[NumBands] = DbScale \div 20
    /\ chain.g[1] = 0 - 3 * DbScale
    /\ Len(chain.eqin[1]) = 2
    /\ chain.eqout[NumBands] = chain.eqin[NumBands]
    /\ chain.eqout[NumBands] # chain.eqin[1]
    /\ chain.eq[NumBands].c.inited
    /\ chain.eq[NumBands].c.coefOf = 0 - 3 * DbScale
    /\ chain.eq[NumBands].x1 # ZeroFrame

\* the gains of a sequence of reads that biquad.Stream does not skip
Filtering(gains) == SelectSeq(gains, LAMBDA dB : ~NearZero(dB))

\* the number of different values in a sequence
Distinct(gains) == Cardinality({gains[k] : k \in 1..Len(gains)})

\* the number of runs of equal consecutive values in a sequence
Runs(gains) ==
    Cardinality({k \in 1..Len(gains) : k = 1 \/ gains[k] # gains[k - 1]})

\* C22 as stated: the number of coefficient computations of a stage is the
\* number of distinct gains it has filtered with.
C22_Original_CountIsDistinctGains ==
    \A i \in 1..NumBands :
        chain.eq[i].ncalc = Distinct(Filtering(chain.reads[i]))

\* C22: the number of coefficient computations of a stage is the number of
\* times the gain it filters with differs from the one it filtered with
\* before (the first included): at least the number of distinct gains, at
\* most the number of pulls, and at most 1 when every pull read one gain.
C22_CountIsGainChanges ==
    \A i \in 1..NumBands :
        /\ chain.eq[i].ncalc = Runs(Filtering(chain.reads[i]))
        /\ chain.eq[i].ncalc >= Distinct(Filtering(chain.reads[i]))
        /\ chain.eq[i].ncalc <= chain.npulls
        /\ Distinct(chain.reads[i]) <= 1 => chain.eq[i].ncalc <= 1

\* band 9 went back to a gain it had before: three computations for two
\* distinct gains, while band 0 computed once in three pulls at -3 dB
C22_Witness_ReturnedToEarlierGain ==
    /\ chain.npulls = 3
    /\ chain.reads[NumBands] = <<EdgeGain, 0 - 3 * DbScale, EdgeGain>>
    /\ chain.eq[NumBands].ncalc = 3
    /\ chain.reads[1] = <<0 - 3 * DbScale, 0 - 3 * DbScale, 0 - 3 * DbScale>>
    /\ chain.eq[1].ncalc = 1

\* stage i filtered frames in the pull just made
RanRecurrence(i) ==
    /\ chain.npulls > 0
    /\ chain.eqout[i] # chain.eqin[i]

\* C23: a stage that has run the recurrence in a pull holds the
\* coefficients of the gain it read in that pull (lastGain is that gain and
\* inited is true), and every frame it returned was filtered with them,
\* whatever gains it read before.
C23_CoefficientsMatchGainRead ==
    \A i \in 1..NumBands :
        RanRecurrence(i) =>
            /\ chain.eq[i].c.inited
            /\ chain.eq[i].c.lastGain = chain.g[i]
            /\ chain.eq[i].c.coefOf = chain.g[i]
            /\ \A k \in 1..Len(chain.eqout[i]) :
                LET y == chain.eqout[i][k]
                IN  y.by[Len(y.by)] = [band |-> i - 1, coefOf |-> chain.g[i]]

\* band 9 filtered at -3 dB, was pulled inside the bypass range, and
\* filters at -3 dB again with the coefficients it kept
C23_Witness_BackThroughBypass ==
    /\ chain.reads[NumBands] =
        <<0 - 3 * DbScale, DbScale \div 20, 0 - 3 * DbScale>>
    /\ RanRecurrence(NumBands)
    /\ chain.eq[NumBands].c.coefOf = 0 - 3 * DbScale
    /\ chain.eq[NumBands].ncalc = 1

\* whether the chain has a resampler: 1 when the rates differ
Resamples == IF chain.rate # DeviceRate THEN 1 ELSE 0

\* the stages that rewrite a frame of the last pull, in the order the claim
\* gives: the resampler if there is one, the biquads that filtered by
\* ascending band, the volume
StagesInOrder ==
    LET bands == [i \in 1..NumBands |->
                    [band |-> i - 1, coefOf |-> chain.g[i]]]
    IN  (IF Resamples = 1 THEN <<[stage |-> "resample"]>> ELSE <<>>)
        \o SelectSeq(bands, LAMBDA t : ~NearZero(t.coefOf))
        \o <<[stage |-> "volume"]>>

\* C24: the chain is decoder, resampler exactly when the source rate is not
\* the device rate, bands 0 to 9 in ascending order, each with the center
\* frequency EQFreqs[i] and the gain cell eqBands[i], then volume, tap and
\* gate; in a pull band 0 takes the frames of the decoder or resampler,
\* each next band the frames the band before returned, the volume those of
\* band 9, and the tap is handed, and the gate returns, the frames as
\* rewritten by all of them in that order.
C24_StagesInFixedOrder ==
    chain.stages # <<>> =>
        LET st == chain.stages
            r == Resamples
        IN  /\ Len(st) = r + NumBands + 4
            /\ st[1].kind = "decoder"
            /\ r = 1 => st[2].kind = "resample"
            /\ \A i \in 1..NumBands :
                /\ st[1 + r + i].kind = "biquad"
                /\ st[1 + r + i].band = i - 1
                /\ st[1 + r + i].freq = EQFreqs[i]
                /\ st[1 + r + i].gain = i
            /\ st[r + NumBands + 2].kind = "volume"
            /\ st[r + NumBands + 3].kind = "tap"
            /\ st[r + NumBands + 4].kind = "ctrl"
            /\ chain.npulls > 0 =>
                /\ chain.eqin[1] =
                    IF r = 1 THEN Stamped(chain.src, "resample") ELSE chain.src
                /\ \A i \in 1..(NumBands - 1) :
                    chain.eqin[i + 1] = chain.eqout[i]
                /\ chain.tapped = Stamped(chain.eqout[NumBands], "volume")
                /\ chain.ret = chain.tapped
                /\ Len(chain.ret) = Len(chain.src)
                /\ \A k \in 1..Len(chain.ret) :
                    chain.ret[k].by = StagesInOrder

\* a chain with a resampler, bands 0 and 9 filtering: the two frames the
\* tap was handed went through the resampler, band 0, band 9 and the
\* volume, in that order
C24_Witness_ResampledBothBandsFiltering ==
    /\ chain.rate = Tracks["b"].rate
    /\ chain.npulls > 0
    /\ Len(chain.tapped) = 2
    /\ chain.g[1] = 0 - 3 * DbScale
    /\ chain.g[NumBands] = EdgeGain
    /\ Len(chain.tapped[1].by) = 4
    /\ chain.tapped[1].by[2] = [band |-> 0, coefOf |-> 0 - 3 * DbScale]
    /\ chain.tapped[1].by[3] = [band |-> NumBands - 1, coefOf |-> EdgeGain]

----------------------------------------------------------------------------
(* The UI's tick (ui.Model.Update on a tickMsg) and what starts a track.   *)
(* Update runs on the one UI thread: a tick begins only when no other      *)
(* Player call of that thread is under way.                                *)

\* Track.Path of track i of the playlist: the first two decode, any other
\* cannot be opened
TrackPath(i) == IF i = 0 THEN "a" ELSE IF i = 1 THEN "b" ELSE "missing"

\* Playlist.Next on playlist p: what it may leave and return
NextOutcomes(p) ==
    LET stay == [pl |-> p, ok |-> FALSE, track |-> NoTrack]
        at(q) == [pl |-> q, ok |-> TRUE, track |-> q.order[q.pos + 1]]
    IN  IF p.ntracks = 0 THEN {stay}
        ELSE IF p.repeat = RepeatOne THEN {at(p)}
        ELSE IF p.pos + 1 < Len(p.order)
        THEN {at([p EXCEPT !.pos = @ + 1])}
        ELSE IF p.repeat = RepeatAll
        THEN {at(q) : q \in IF p.shuffle
                            THEN doShuffle([p EXCEPT !.pos = 0])
                            ELSE {[p EXCEPT !.pos = 0]}}
        ELSE {stay}

\* Model.playCurrentTrack: Play on the current track, if there is one
PlayCurrentTrack ==
    /\ pc = "idle"
    /\ uiRet' = [UiCall("playCurrentTrack") EXCEPT
                    !.track = Current(playlist).track]
    /\ IF Current(playlist).idx < 0
       THEN UNCHANGED <<pc, cur, nplays>>
       ELSE /\ nplays < MaxPlays
            /\ nplays' = nplays + 1
            /\ cur' = [NoCall EXCEPT !.op = "Play",
                          !.path = TrackPath(Current(playlist).track),
                          !.pre = Snapshot]
            /\ pc' = "stop_clear"
    /\ UNCHANGED <<playlist, vis, chain, locks, playerVars, paramVars, trackDone,
                   lockVars, mixer, pipes, files, nseeks, ret, audioVars,
                   written>>

\* a nextTrack that plays without advancing the playlist
NextTrack_SameTrack(o) ==
    /\ playlist' = playlist
    /\ uiRet' = [UiCall("nextTrack") EXCEPT !.ok = o.ok, !.track = o.track]
    /\ IF o.ok
       THEN /\ nplays < MaxPlays
            /\ nplays' = nplays + 1
            /\ cur' = [NoCall EXCEPT !.op = "Play",
                          !.path = TrackPath(Current(playlist).track),
                          !.pre = Snapshot]
       ELSE /\ cur' = [NoCall EXCEPT !.op = "Stop", !.pre = Snapshot]
            /\ UNCHANGED nplays
    /\ pc' = "stop_clear"

\* Model.nextTrack with o what Playlist.Next left and returned: Play on the
\* track it returned, or Stop when it returned none
NextTrack(o) ==
    /\ playlist' = o.pl
    /\ uiRet' = [UiCall("nextTrack") EXCEPT !.ok = o.ok, !.track = o.track]
    /\ IF o.ok
       THEN /\ nplays < MaxPlays
            /\ nplays' = nplays + 1
            /\ cur' = [NoCall EXCEPT !.op = "Play",
                          !.path = TrackPath(o.track), !.pre = Snapshot]
       ELSE /\ cur' = [NoCall EXCEPT !.op = "Stop", !.pre = Snapshot]
            /\ UNCHANGED nplays
    /\ pc' = "stop_clear"

\* Update on a tickMsg: IsPlaying and IsPaused under p.mu, TrackDone, and
\* nextTrack when all three say the track ended by itself
Tick ==
    /\ pc = "idle"
    /\ muOwner = "none"
    /\ IF playing /\ ~paused /\ trackDone
       THEN \E o \in NextOutcomes(playlist) : NextTrack(o)
       ELSE /\ uiRet' = UiCall("Tick")
            /\ UNCHANGED <<playlist, pc, cur, nplays>>
    /\ UNCHANGED <<vis, chain, locks, playerVars, paramVars, trackDone, lockVars,
                   mixer, pipes, files, nseeks, ret, audioVars, written>>

\* the tracks are added before the UI starts (main.run)
AddBeforeStart(k) == nplays = 0 /\ uiRet.op \in {"none", "Add"} /\ PlaylistAdd(k)

NextAuto ==
    \/ \E k \in AddCounts : AddBeforeStart(k)
    \/ CycleRepeat
    \/ PlayCurrentTrack
    \/ Tick
    \/ StopClear
    \/ StopLock
    \/ StopBody
    \/ PlayOpen
    \/ PlayDecode
    \/ PlayLock
    \/ PlayBuild
    \/ PlayAttach
    \/ TogglePauseCall
    \/ TogglePauseLock
    \/ TogglePauseBody
    \/ AudioLock
    \/ AudioStream
    \/ AudioVolume
    \/ AudioUnlock

\* what the UI thread has left to do of the Player call it is in, and the
\* steps of a pull
CallSteps ==
    \/ StopClear \/ StopLock \/ StopBody
    \/ PlayOpen \/ PlayDecode \/ PlayLock \/ PlayBuild \/ PlayAttach
    \/ TogglePauseLock \/ TogglePauseBody
PullSteps == AudioStream \/ AudioVolume \/ AudioUnlock

\* tickCmd schedules the next tick from every tick, and Update handles the
\* messages one after the other: a tick is handled again and again; a
\* call under way goes on, getting each mutex it waits for (sync.Mutex
\* does not starve a waiter); a pull under way goes on
SpecAuto ==
    /\ Init /\ [][NextAuto]_vars
    /\ SF_vars(Tick)
    /\ SF_vars(CallSteps)
    /\ SF_vars(PullSteps)

\* the step is a tick, and the tick finds a track that ended by itself
TickStep ==
    /\ pc = "idle"
    /\ uiRet'.op \in {"Tick", "nextTrack"}
    /\ uiRet' # uiRet \/ pc' = "stop_clear"
EndedByItself == playing /\ ~paused /\ trackDone

\* the step on which the call nextTrack made returns
NextTrackReturns ==
    /\ uiRet.op = "nextTrack"
    /\ cur.op \in {"Play", "Stop"}
    /\ pc # "idle" /\ pc' = "idle"

\* C25: a tick that finds the player playing, not paused and the flag set
\* calls Playlist.Next once and then Play on the track it returned, or
\* Stop when it returned none; any other tick changes nothing; when the
\* call returns, either the flag is clear and the track Next returned is
\* playing, or the player is not playing; and the flag is set only by the
\* drain of the track then loaded, once per track, so that a later tick
\* advances only for a later completion.  With ticks handled again and
\* again, a track that ended by itself does not stay so: a tick advances
\* (or the user pauses or starts a track first).
C25_TickAdvancesOncePerCompletion ==
    /\ [][(TickStep /\ EndedByItself) =>
            \E o \in NextOutcomes(playlist) :
                /\ playlist' = o.pl
                /\ uiRet'.op = "nextTrack"
                /\ pc' = "stop_clear"
                /\ IF o.ok
                   THEN /\ cur'.op = "Play"
                        /\ cur'.path = TrackPath(o.track)
                        /\ o.track = Index(playlist')
                   ELSE cur'.op = "Stop"]_vars
    /\ [][(TickStep /\ ~EndedByItself) =>
            /\ uiRet'.op = "Tick"
            /\ UNCHANGED <<playlist, pc, cur, playerVars, trackDone, mixer,
                           pipes>>]_vars
    /\ [][NextTrackReturns =>
            \/ /\ ~trackDone' /\ playing' /\ ~paused'
               /\ uiRet.ok
               /\ streamer' # Nil /\ streamer' # cur.pre.streamer
               /\ pipes'[streamer'].path = TrackPath(uiRet.track)
               /\ mixer' = {streamer'}
            \/ ~playing']_vars
    /\ [][(~trackDone /\ trackDone') =>
            /\ acur.id = streamer
            /\ pipes[streamer].callbacks = 0
            /\ pipes'[streamer].callbacks = 1]_vars
    /\ (EndedByItself /\ nplays < MaxPlays) ~> ~EndedByItself

\* the first track ended by itself, a tick started the second, and the
\* second is playing with the flag clear
C25_Witness_SecondTrackStartedByTick ==
    /\ pc = "idle"
    /\ uiRet.op = "nextTrack" /\ uiRet.ok /\ uiRet.track = 1
    /\ uiRet.pre.idx = 0
    /\ ret.op = "Play" /\ ret.err = "nil"
    /\ playing /\ ~trackDone
    /\ pipes[streamer].path = "b"
    /\ Index(playlist) = 1

----------------------------------------------------------------------------
(* The locks alone: calls of the UI thread alongside pulls *)

NextLocks ==
    \/ \E op \in DOMAIN ControlLocks : LockCall(op)
    \/ LockStep
    \/ PullCall
    \/ PullStep

\* a thread that can make its next call makes it: sync.Mutex hands a freed
\* mutex to a waiter
SpecLocks ==
    /\ Init /\ [][NextLocks]_vars
    /\ SF_vars(LockStep)
    /\ SF_vars(PullStep)

\* the mutexes thread t holds, and the one it is about to lock
Holds(t) == {l \in Mutexes : locks.owner[l] = t}
WaitsFor(todo, l) == todo # <<>> /\ Head(todo) = Acq(l)

\* C26: neither thread is ever about to lock the speaker's mutex while it
\* holds Player.mu or Tap.mu; whenever a call or a pull is under way one of
\* the two threads can make its next step; and every call and every pull
\* under way comes to its end.
C26_NoDeadlock ==
    /\ [](WaitsFor(locks.ctl.todo, "spk") =>
            Holds("ctl") \cap {"mu", "tap"} = {})
    /\ [](WaitsFor(locks.aud, "spk") => Holds("aud") = {})
    /\ []((locks.ctl.todo # <<>> \/ locks.aud # <<>>) =>
            \/ CanStep("ctl", locks.ctl.todo)
            \/ CanStep("aud", locks.aud))
    /\ (locks.ctl.todo # <<>>) ~> (locks.ctl.todo = <<>>)
    /\ (locks.aud # <<>>) ~> (locks.aud = <<>>)

\* the pull holds the speaker's mutex and waits for Player.mu, which Play
\* holds in its build step with speaker.Play still to come
C26_Witness_PullWaitsForPlayBuild ==
    /\ locks.ctl.op = "Play"
    /\ locks.owner["mu"] = "ctl"
    /\ locks.owner["spk"] = "aud"
    /\ WaitsFor(locks.aud, "mu")
    /\ Len(locks.ctl.todo) = 3

----------------------------------------------------------------------------
(* Pause: Play, Stop and TogglePause alongside pulls, with the getters     *)

\* Player.IsPlaying: p.playing under p.mu (1: true, 0: false)
IsPlaying ==
    /\ pc = "idle"
    /\ muOwner = "none"
    /\ ret' = Returned("IsPlaying", "nil", IF playing THEN 1 ELSE 0)
    /\ UNCHANGED <<uiVars,
                   playerVars, paramVars, trackDone, lockVars, mixer, pipes,
                   files, nplays, nseeks, pc, cur, audioVars, written>>

\* Player.IsPaused: p.paused under p.mu (1: true, 0: false)
IsPaused ==
    /\ pc = "idle"
    /\ muOwner = "none"
    /\ ret' = Returned("IsPaused", "nil", IF paused THEN 1 ELSE 0)
    /\ UNCHANGED <<uiVars,
                   playerVars, paramVars, trackDone, lockVars, mixer, pipes,
                   files, nplays, nseeks, pc, cur, audioVars, written>>

NextPause ==
    \/ \E path \in {"a", "missing"} : PlayCall(path)
    \/ StopCall
    \/ StopClear
    \/ StopLock
    \/ StopBody
    \/ PlayOpen
    \/ PlayDecode
    \/ PlayLock
    \/ PlayBuild
    \/ PlayAttach
    \/ TogglePauseCall
    \/ TogglePauseLock
    \/ TogglePauseBody
    \/ IsPlaying
    \/ IsPaused
    \/ AudioLock
    \/ AudioStream
    \/ AudioVolume
    \/ AudioUnlock

SpecPause == Init /\ [][NextPause]_vars

\* the step on which TogglePause returns
TogglePauseReturns == pc = "pause_body" /\ pc' = "idle"

\* C27: the paused flag is set only while the playing flag is; IsPaused
\* and IsPlaying return those flags; while there is a gate the paused flag
\* is the gate's; TogglePause flips both when there is a gate and changes
\* nothing when there is none.
C27_PausedOnlyWhilePlaying ==
    /\ [](paused => playing)
    /\ []((pc = "idle" /\ ret.op = "IsPaused") =>
            ret.val = IF paused THEN 1 ELSE 0)
    /\ []((pc = "idle" /\ ret.op = "IsPlaying") =>
            ret.val = IF playing THEN 1 ELSE 0)
    /\ [](ctrl # Nil => paused = pipes[ctrl].gatePaused)
    /\ [](ctrl # Nil <=> playing)
    /\ [][TogglePauseReturns =>
            IF ctrl = Nil
            THEN UNCHANGED <<playerVars, paramVars, trackDone, mixer, pipes,
                             files>>
            ELSE /\ paused' = ~paused
                 /\ pipes'[ctrl].gatePaused = ~pipes[ctrl].gatePaused
                 /\ UNCHANGED <<streamer, file, format, ctrl, tap, playing,
                                trackDone, mixer>>]_vars

\* a track was played and stopped, then TogglePause was called with
\* nothing loaded: nothing is paused
C27_Witness_ToggledWithNothingLoaded ==
    /\ pc = "idle"
    /\ ret.op = "TogglePause"
    /\ nplays > 0
    /\ ctrl = Nil /\ streamer = Nil
    /\ ~paused /\ ~playing

\* the pipeline is neither attached to the speaker nor in a pull
Detached(id) == id \notin mixer /\ acur.id # id

\* C28: while the flag is set a track is loaded and the flag was set by the
\* one run of that track's own callback, after its decoder was exhausted; a
\* pipeline that Stop or Play has dropped is neither attached nor being
\* pulled, so its callback cannot run; and from the reset in Stop's body to
\* the attach of the next track nothing sets the flag.
C28_FlagBelongsToLoadedTrack ==
    /\ [](trackDone =>
            /\ streamer # Nil
            /\ pipes[streamer].callbacks = 1
            /\ pipes[streamer].stage = "done"
            /\ ~pipes[streamer].closed)
    /\ [][(~trackDone /\ trackDone') =>
            /\ acur.id = streamer
            /\ pipes[streamer].pos = pipes[streamer].len
            /\ pc \notin {"stop_lock", "stop_body", "play_open", "play_decode",
                          "play_lock", "play_build", "play_attach"}]_vars
    /\ [](\A id \in DOMAIN pipes : id # streamer => Detached(id))
    /\ []((pc \in {"stop_lock", "stop_body"} /\ streamer # Nil) =>
            Detached(streamer))

\* the first track ran out and set the flag; Play has replaced it and the
\* flag is clear, with the second track about to be attached
C28_Witness_ReplacedAfterCompletion ==
    /\ pc = "play_attach"
    /\ cur.pre.trackDone
    /\ ~trackDone
    /\ streamer # Nil /\ streamer # cur.pre.streamer
    /\ pipes[cur.pre.streamer].closed

\* the indices of the tracks: 0..Len()-1
TrackIndices == 0..(playlist.ntracks - 1)

\* C29: while the playlist holds at least one track, order lists every
\* track index exactly once and pos is a position of order, so that
\* Current and Index return the index of a track of the playlist; SetIndex
\* with an index of the playlist makes that track current, and with any
\* other index leaves the playlist as it was.
C29_OrderIsPermutation ==
    /\ [](playlist.ntracks > 0 =>
            /\ Len(playlist.order) = playlist.ntracks
            /\ \A t \in TrackIndices :
                Cardinality({k \in 1..Len(playlist.order) :
                                playlist.order[k] = t}) = 1
            /\ playlist.pos \in 0..(playlist.ntracks - 1)
            /\ Current(playlist).idx \in TrackIndices
            /\ Current(playlist).track = Current(playlist).idx
            /\ Index(playlist) \in TrackIndices)
    /\ [][PlaylistReturns("SetIndex") =>
            IF uiRet'.idx \in TrackIndices
            THEN /\ Index(playlist') = uiRet'.idx
                 /\ playlist' = [playlist EXCEPT !.pos = playlist'.pos]
            ELSE playlist' = playlist]_vars

\* two tracks were shuffled into <<1, 0>> and a third added while shuffle
\* was on; SetIndex(3) then found no such track
C29_Witness_AddedWhileShuffled ==
    /\ playlist.shuffle
    /\ playlist.order = <<1, 0, 2>>
    /\ playlist.pos = 2
    /\ uiRet.op = "SetIndex" /\ uiRet.idx = 3
    /\ uiRet.pre.pos = 2

\* C30: on an empty playlist Current returns no track and -1, Index
\* returns -1, Next and Prev return false, and no call panics or leaves
\* the playlist other than empty at position 0.
C30_EmptyPlaylistIsSafe ==
    playlist.ntracks = 0 =>
        /\ pc # "panic" /\ ~uiRet.panic
        /\ playlist.order = <<>> /\ playlist.pos = 0
        /\ uiRet.op = "Current" => (uiRet.track = NoTrack /\ uiRet.idx = -1)
        /\ uiRet.op = "Index" => uiRet.idx = -1
        /\ uiRet.op \in {"Next", "Prev"} => ~uiRet.ok

============================================================================
